---------------------------- MODULE Spec2Model ----------------------------
(***************************************************************************)
(* A model of the talos governance kernel: the clause-based policy engine  *)
(* (governance.py, registry.py), the signed policy manifest loader         *)
(* (policy_loader.py, sign_policies.py), the hash-chained audit log and    *)
(* the signed warrants (governance_crypto.py), and the rate limiter and    *)
(* the kernel's request path (crypto_governance.py).                       *)
(*                                                                         *)
(* Python strings are TLA+ strings (sequences of characters); str(int) is  *)
(* ToString and every parser below walks the characters.                   *)
(***************************************************************************)
EXTENDS Integers, Sequences, FiniteSets, TLC

(***************************************************************************)
(* Strings                                                                 *)
(***************************************************************************)
Ch(s, i) == SubSeq(s, i, i)

Digits == {"0", "1", "2", "3", "4", "5", "6", "7", "8", "9"}

DigitVal(c) ==
    CASE c = "0" -> 0 [] c = "1" -> 1 [] c = "2" -> 2 [] c = "3" -> 3
      [] c = "4" -> 4 [] c = "5" -> 5 [] c = "6" -> 6 [] c = "7" -> 7
      [] c = "8" -> 8 [] c = "9" -> 9
      [] c \in {"a", "A"} -> 10 [] c \in {"b", "B"} -> 11
      [] c \in {"c", "C"} -> 12 [] c \in {"d", "D"} -> 13
      [] c \in {"e", "E"} -> 14 [] c \in {"f", "F"} -> 15

HexDigits == Digits \cup {"a", "b", "c", "d", "e", "f", "A", "B", "C", "D", "E", "F"}

Whitespace == {" ", "\t", "\n"}

\* str(v) of a Python value: an int prints in decimal, a str is itself.
PyStr(v) == IF "int" \in DOMAIN v THEN ToString(v.int) ELSE v.str

PyInt(n) == [int |-> n]
PyS(s) == [str |-> s]

\* The position of the first character of s at or after i that is in cs;
\* 0 when none.
RECURSIVE IndexFrom(_, _, _)
IndexFrom(s, cs, i) ==
    IF i > Len(s) THEN 0
    ELSE IF Ch(s, i) \in cs THEN i
    ELSE IndexFrom(s, cs, i + 1)

\* The position of the first character of s at or after i that is not in
\* cs; 0 when none.
RECURSIVE IndexNotFrom(_, _, _)
IndexNotFrom(s, cs, i) ==
    IF i > Len(s) THEN 0
    ELSE IF Ch(s, i) \notin cs THEN i
    ELSE IndexNotFrom(s, cs, i + 1)

FormatFailed == [ok |-> FALSE, s |-> ""]

\* template.format(**context) from position i on: {name} is replaced by
\* context[name], {{ and }} are the literal braces; a missing name
\* (KeyError) or an unmatched brace (ValueError) fails.
RECURSIVE FormatFrom(_, _, _)
FormatFrom(t, ctx, i) ==
    LET b == IndexFrom(t, {"{", "}"}, i) IN
    IF b = 0 THEN [ok |-> TRUE, s |-> SubSeq(t, i, Len(t))]
    ELSE LET lit == SubSeq(t, i, b - 1)
             c == Ch(t, b)
         IN  IF b < Len(t) /\ Ch(t, b + 1) = c
             THEN LET rest == FormatFrom(t, ctx, b + 2)
                  IN  [ok |-> rest.ok, s |-> lit \o c \o rest.s]
             ELSE IF c = "}" THEN FormatFailed
             ELSE LET j == IndexFrom(t, {"}"}, b + 1) IN
                  IF j = 0 THEN FormatFailed
                  ELSE LET key == SubSeq(t, b + 1, j - 1) IN
                       IF key \notin DOMAIN ctx THEN FormatFailed
                       ELSE LET rest == FormatFrom(t, ctx, j + 1)
                            IN  [ok |-> rest.ok, s |-> lit \o ctx[key] \o rest.s]

Format(t, ctx) == FormatFrom(t, ctx, 1)

\* s.split() on the separators seps, from position i on: the maximal runs
\* of characters outside seps, in order.
RECURSIVE SplitFrom(_, _, _)
SplitFrom(s, seps, i) ==
    LET b == IndexNotFrom(s, seps, i) IN
    IF b = 0 THEN <<>>
    ELSE LET e == IndexFrom(s, seps, b) IN
         IF e = 0 THEN <<SubSeq(s, b, Len(s))>>
         ELSE <<SubSeq(s, b, e - 1)>> \o SplitFrom(s, seps, e + 1)

Split(s) == SplitFrom(s, Whitespace, 1)

\* " ".join(tokens)
RECURSIVE Join(_)
Join(toks) ==
    IF toks = <<>> THEN ""
    ELSE IF Len(toks) = 1 THEN toks[1]
    ELSE toks[1] \o " " \o Join(Tail(toks))


(***************************************************************************)
(* The expression evaluator (the rpn binary).  Its source is not part of   *)
(* the Python sources; it is modelled from its wire contract and from the  *)
(* cases of test_suite.py: a stack calculator over integers that answers   *)
(* one line, the decimal value on top of the stack, or a fixed diagnostic. *)
(***************************************************************************)
RpnErrorText == "Error: Invalid operation or insufficient arguments."

\* The value of the digits of s from i on in the given base, continuing
\* from acc; -1 when a character is no digit of the base.
RECURSIVE ParseDigits(_, _, _, _)
ParseDigits(s, base, i, acc) ==
    IF i > Len(s) THEN acc
    ELSE LET c == Ch(s, i) IN
         IF c \in HexDigits /\ DigitVal(c) < base
         THEN ParseDigits(s, base, i + 1, acc * base + DigitVal(c))
         ELSE -1

\* The magnitude of an unsigned literal: digits, 0x... or 0b...; -1 when
\* it is none.
RpnMagnitude(body) ==
    IF Len(body) > 2 /\ SubSeq(body, 1, 2) \in {"0x", "0X"}
       THEN ParseDigits(body, 16, 3, 0)
    ELSE IF Len(body) > 2 /\ SubSeq(body, 1, 2) \in {"0b", "0B"}
       THEN ParseDigits(body, 2, 3, 0)
    ELSE IF Len(body) >= 1 THEN ParseDigits(body, 10, 1, 0)
    ELSE -1

SignedLiteral(neg, mag) == [ok |-> mag >= 0, val |-> IF neg THEN 0 - mag ELSE mag]

\* Radix-aware literal parsing: [-]digits, [-]0x..., [-]0b...
RpnParseLiteral(tok) ==
    IF Len(tok) >= 1 /\ Ch(tok, 1) = "-"
    THEN SignedLiteral(TRUE, RpnMagnitude(SubSeq(tok, 2, Len(tok))))
    ELSE SignedLiteral(FALSE, RpnMagnitude(tok))

\* Two's complement bitwise and of two integers.
RECURSIVE BitAnd(_, _)
BitAnd(a, b) ==
    IF a = 0 \/ b = 0 THEN 0
    ELSE IF a = -1 THEN b
    ELSE IF b = -1 THEN a
    ELSE 2 * BitAnd(a \div 2, b \div 2) + ((a % 2) * (b % 2))

BitOr(a, b) == a + b - BitAnd(a, b)

BitNot(a) == 0 - a - 1

BoolInt(b) == IF b THEN 1 ELSE 0

\* Whether the rpn binary of this build knows the two-character comparison
\* ">=": the contract lists the comparisons = < > and does not say what any
\* other token does, and the registry's templates use ">=".
VARIABLE rpnGe

RpnBinaryOps ==
    {"+", "-", "*", "/", "%", "&", "|", "=", "<", ">", "s"}
        \cup (IF rpnGe THEN {">="} ELSE {})
RpnUnaryOps == {"~", "d", "x"}

\* Truncating division, as the machine's signed divide.
TruncDiv(a, b) ==
    LET q == (IF a < 0 THEN 0 - a ELSE a) \div (IF b < 0 THEN 0 - b ELSE b)
    IN  IF (a < 0) = (b < 0) THEN q ELSE 0 - q

RpnOk(st) == [ok |-> TRUE, st |-> st]
RpnFail(st) == [ok |-> FALSE, st |-> st]

RpnBinary(tok, base, a, b, st) ==
    CASE tok = "+" -> RpnOk(Append(base, a + b))
      [] tok = "-" -> RpnOk(Append(base, a - b))
      [] tok = "*" -> RpnOk(Append(base, a * b))
      [] tok = "/" -> IF b = 0 THEN RpnFail(st) ELSE RpnOk(Append(base, TruncDiv(a, b)))
      [] tok = "%" -> IF b = 0 THEN RpnFail(st)
                      ELSE RpnOk(Append(base, a - b * TruncDiv(a, b)))
      [] tok = "&" -> RpnOk(Append(base, BitAnd(a, b)))
      [] tok = "|" -> RpnOk(Append(base, BitOr(a, b)))
      [] tok = "=" -> RpnOk(Append(base, BoolInt(a = b)))
      [] tok = "<" -> RpnOk(Append(base, BoolInt(a < b)))
      [] tok = ">" -> RpnOk(Append(base, BoolInt(a > b)))
      [] tok = ">=" -> RpnOk(Append(base, BoolInt(a >= b)))
      [] tok = "s" -> RpnOk(base \o <<b, a>>)

RpnUnary(tok, base, a, st) ==
    CASE tok = "~" -> RpnOk(Append(base, BitNot(a)))
      [] tok = "d" -> RpnOk(Append(st, a))
      [] tok = "x" -> RpnOk(base)

RpnPush(st, lit) == IF lit.ok THEN RpnOk(Append(st, lit.val)) ELSE RpnFail(st)

\* One token applied to the stack (top last); ok = FALSE on operand
\* starvation, division by zero or an unknown token.
RpnStep(st, tok) ==
    IF tok \in RpnBinaryOps
    THEN IF Len(st) < 2 THEN RpnFail(st)
         ELSE RpnBinary(tok, SubSeq(st, 1, Len(st) - 2), st[Len(st) - 1], st[Len(st)], st)
    ELSE IF tok \in RpnUnaryOps
    THEN IF Len(st) < 1 THEN RpnFail(st)
         ELSE RpnUnary(tok, SubSeq(st, 1, Len(st) - 1), st[Len(st)], st)
    ELSE RpnPush(st, RpnParseLiteral(tok))

RECURSIVE RpnFold(_, _, _)
RpnContinue(toks, i, r) == IF r.ok THEN RpnFold(toks, i + 1, r.st) ELSE r

RpnFold(toks, i, st) ==
    IF i > Len(toks) THEN RpnOk(st) ELSE RpnContinue(toks, i, RpnStep(st, toks[i]))

RpnLine(type, r) ==
    IF type = 1 /\ r.ok /\ r.st # <<>> THEN ToString(r.st[Len(r.st)]) ELSE RpnErrorText

\* The response line to one execute frame, already stripped of its newline.
RpnRespond(packet) ==
    RpnLine(packet.type, RpnFold(SplitFrom(packet.body, {" "}, 1), 1, <<>>))

(***************************************************************************)
(* governance.py: DaemonController                                         *)
(***************************************************************************)
\* _start: Popen succeeds iff the binary can be executed.
DaemonStart(binOk) == IF binOk THEN "running" ELSE "none"

\* struct.pack('>IB', len(body), 1) + body
Packet(body) == [length |-> Len(body), type |-> 1, body |-> body]

Frame(tokens) == Packet(Join(tokens))

\* The round trip answering "1" when there is no process.
DaemonRoundTripOpen(tokens, p) ==
    IF p # "running"
    THEN [out |-> "1", process |-> p, trips |-> 0]
    ELSE [out |-> RpnRespond(Frame(tokens)), process |-> p, trips |-> 1]

\* The round trip of evaluate on a controller whose process is p after the
\* liveness check.
DaemonRoundTrip(tokens, p) ==
    IF p # "running"
    THEN [out |-> "0", process |-> p, trips |-> 0]
    ELSE [out |-> RpnRespond(Frame(tokens)), process |-> p, trips |-> 1]

\* evaluate(expr_tokens) on a controller whose process is proc: the output
\* string and the process afterwards.
DaemonEvaluate(tokens, proc, binOk) ==
    DaemonRoundTrip(tokens, IF proc # "running" THEN DaemonStart(binOk) ELSE proc)

(***************************************************************************)
(* governance.py: Policy                                                   *)
(***************************************************************************)
\* One layer of matching quote characters is stripped from a token.
StripQuotes(tok) ==
    IF Len(tok) >= 1
       /\ \/ Ch(tok, 1) = "\"" /\ Ch(tok, Len(tok)) = "\""
          \/ Ch(tok, 1) = "'" /\ Ch(tok, Len(tok)) = "'"
    THEN SubSeq(tok, 2, Len(tok) - 1)
    ELSE tok

StripAll(raw) == [i \in 1..Len(raw) |-> StripQuotes(raw[i])]

KernelArgs(rpn_expr) == StripAll(Split(rpn_expr))

\* a comparison that takes every number but zero for true
KernelResultTruthy(r) ==
    [result |-> r.out \notin {"0", "", RpnErrorText}, process |-> r.process,
     trips |-> r.trips]

\* return output == "1"
KernelResult(r) == [result |-> r.out = "1", process |-> r.process, trips |-> r.trips]

\* _run_kernel: true iff the daemon's output is exactly "1".
RunKernel(rpn_expr, proc, binOk) ==
    KernelResult(DaemonEvaluate(KernelArgs(rpn_expr), proc, binOk))

CtxSet(ctx, k, v) == (k :> v) @@ ctx

BoolStr(b) == IF b THEN "1" ELSE "0"

\* The except branch recording True.
ClauseOutcomeOpen(f, proc, binOk) ==
    IF f.ok THEN RunKernel(f.s, proc, binOk)
    ELSE [result |-> TRUE, process |-> proc, trips |-> 0]

\* One clause of Policy.evaluate: the formatted template goes to the
\* kernel; a template that cannot be formatted is the except branch.
ClauseOutcome(f, proc, binOk) ==
    IF f.ok THEN RunKernel(f.s, proc, binOk)
    ELSE [result |-> FALSE, process |-> proc, trips |-> 0]

\* The clause loop of Policy.evaluate from clause i on: the result of
\* clause i is recorded in the trace and written back into the context.
RECURSIVE EvalClauses(_, _, _, _, _, _, _)
\* The loop without the write-back into the context.
EvalRecordNoFeedback(clauses, i, ctx, trace, binOk, trips, o) ==
    EvalClauses(clauses, i + 1, ctx,
                Append(trace, [name |-> clauses[i].name, value |-> o.result]),
                o.process, binOk, trips + o.trips)

EvalRecord(clauses, i, ctx, trace, binOk, trips, o) ==
    EvalClauses(clauses, i + 1, CtxSet(ctx, clauses[i].name, BoolStr(o.result)),
                Append(trace, [name |-> clauses[i].name, value |-> o.result]),
                o.process, binOk, trips + o.trips)

EvalClauses(clauses, i, ctx, trace, proc, binOk, trips) ==
    IF i > Len(clauses)
    THEN [ctx |-> ctx, trace |-> trace, process |-> proc, trips |-> trips]
    ELSE EvalRecord(clauses, i, ctx, trace, binOk, trips,
                    ClauseOutcome(Format(clauses[i].template, ctx), proc, binOk))

TraceValue(trace, k) ==
    trace[CHOOSE i \in 1..Len(trace) : trace[i].name = k].value

\* trace_map = {k: "1" if v else "0"}
TraceMap(trace) ==
    [k \in {trace[i].name : i \in 1..Len(trace)} |-> BoolStr(TraceValue(trace, k))]

TraceAny(trace) == \E i \in 1..Len(trace) : trace[i].value
TraceAll(trace) == \A i \in 1..Len(trace) : trace[i].value

Evaluated(pol, c, final, proc, trips) ==
    [proof |-> [allowed |-> final, trace |-> c.trace, policy_name |-> pol.name],
     ctx |-> c.ctx, process |-> proc, trips |-> trips]

CombineKernel(pol, c, k) == Evaluated(pol, c, k.result, k.process, c.trips + k.trips)

\* The combination step with "AND" and "OR" taken for each other.
CombineSwapped(pol, c, binOk) ==
    IF pol.combination = "AND" THEN Evaluated(pol, c, TraceAny(c.trace), c.process, c.trips)
    ELSE IF pol.combination = "OR"
    THEN Evaluated(pol, c, TraceAll(c.trace), c.process, c.trips)
    ELSE CombineKernel(pol, c,
            ClauseOutcome(Format(pol.combination, TraceMap(c.trace)), c.process, binOk))

\* The combination step of Policy.evaluate over the clause results c.
Combine(pol, c, binOk) ==
    IF pol.combination = "OR" THEN Evaluated(pol, c, TraceAny(c.trace), c.process, c.trips)
    ELSE IF pol.combination = "AND"
    THEN Evaluated(pol, c, TraceAll(c.trace), c.process, c.trips)
    ELSE CombineKernel(pol, c,
            ClauseOutcome(Format(pol.combination, TraceMap(c.trace)), c.process, binOk))

\* Policy.evaluate(context): the DecisionProof, the context as the loop
\* left it, and the daemon's process afterwards.
PolicyEvaluate(pol, context, proc, binOk) ==
    Combine(pol, EvalClauses(pol.clauses, 1, context, <<>>, proc, binOk, 0), binOk)

TraceGet(trace, name) ==
    \E i \in 1..Len(trace) : trace[i].name = name /\ trace[i].value

TraceHas(trace, name) == \E i \in 1..Len(trace) : trace[i].name = name

(***************************************************************************)
(* registry.py                                                             *)
(***************************************************************************)
\* The ACTIONS table (ACTIONS itself is no TLA+ identifier).
Actions ==
    [READ_FILE |-> 101, LIST_DIR |-> 102, WRITE_FILE |-> 201, DELETE_FILE |-> 202,
     DELETE_DB |-> 902, DEPLOY |-> 903, NET_SCAN |-> 301, NET_CONNECT |-> 302,
     SYSTEM_REBOOT |-> 901]

ROLE_ADMIN == 4

\* The policy with the two clause results combined by AND.
StandardAccessAnd ==
    [name |-> "StandardAccess",
     clauses |-> <<
        [name |-> "is_admin", template |-> "{role_mask} 4 \"&\" 4 \"=\""],
        [name |-> "is_safe_action",
         template |-> "{action_id} 200 \"<\" {action_id} 99 \">\" \"&\""] >>,
     combination |-> "AND"]

\* The policy with the safe range ending below 199.
StandardAccessShortRange ==
    [name |-> "StandardAccess",
     clauses |-> <<
        [name |-> "is_admin", template |-> "{role_mask} 4 \"&\" 4 \"=\""],
        [name |-> "is_safe_action",
         template |-> "{action_id} 199 \"<\" {action_id} 99 \">\" \"&\""] >>,
     combination |-> "OR"]

STANDARD_ACCESS_POLICY ==
    [name |-> "StandardAccess",
     clauses |-> <<
        [name |-> "is_admin", template |-> "{role_mask} 4 \"&\" 4 \"=\""],
        [name |-> "is_safe_action",
         template |-> "{action_id} 200 \"<\" {action_id} 99 \">\" \"&\""] >>,
     combination |-> "OR"]

\* EPOCH_POLICY with the templates of the two mode clauses exchanged
EpochPolicySwapped ==
    [name |-> "EpochState",
     clauses |-> <<[name |-> "is_normal_mode", template |-> "{epoch} 1 \"=\""],
                   [name |-> "is_emergency_mode", template |-> "{epoch} 0 \"=\""],
                   [name |-> "is_admin", template |-> "{role_mask} 4 \"&\" 4 \"=\""]>>,
     combination |-> "OR"]

EPOCH_POLICY ==
    [name |-> "EpochState",
     clauses |-> <<
        [name |-> "is_normal_mode", template |-> "{epoch} 0 \"=\""],
        [name |-> "is_emergency_mode", template |-> "{epoch} 1 \"=\""],
        [name |-> "is_admin", template |-> "{role_mask} 4 \"&\" 4 \"=\""] >>,
     combination |-> "OR"]

\* SOC_ESCALATION_POLICY with the kill switch left out of the combination
SocWithoutKillSwitch ==
    [name |-> "SOCMatrix",
     clauses |-> <<
        [name |-> "low_risk", template |-> "{severity} 30 \"<\""],
        [name |-> "medium_risk",
         template |-> "{severity} 30 \">=\" {severity} 70 \"<\" \"&\""],
        [name |-> "high_risk",
         template |-> "{severity} 70 \">=\" {investigator_sig} {human_sig} \"&\" \"&\""],
        [name |-> "kill_switch", template |-> "{severity} 95 \">=\""] >>,
     combination |-> "{low_risk} {medium_risk} {high_risk} \"|\" \"|\""]

SOC_ESCALATION_POLICY ==
    [name |-> "SOCMatrix",
     clauses |-> <<
        [name |-> "low_risk", template |-> "{severity} 30 \"<\""],
        [name |-> "medium_risk",
         template |-> "{severity} 30 \">=\" {severity} 70 \"<\" \"&\""],
        [name |-> "high_risk",
         template |-> "{severity} 70 \">=\" {investigator_sig} {human_sig} \"&\" \"&\""],
        [name |-> "kill_switch", template |-> "{severity} 95 \">=\""] >>,
     combination |->
        "{low_risk} {medium_risk} {high_risk} \"|\" \"|\" {kill_switch} \"~\" \"&\""]

CONSTITUTIONAL_IR_POLICY ==
    [name |-> "ConstitutionalIR",
     clauses |-> <<
        [name |-> "one_sig", template |-> "{containment_sig} {continuity_sig} \"|\""],
        [name |-> "two_sigs", template |-> "{containment_sig} {continuity_sig} \"&\""],
        [name |-> "human_sig_present", template |-> "{human_sig}"],
        [name |-> "tier_1_valid",
         template |-> "{severity} 40 \">=\" {severity} 70 \"<\" \"&\" {one_sig} \"&\""],
        [name |-> "tier_2_valid",
         template |-> "{severity} 70 \">=\" {severity} 90 \"<\" \"&\" {two_sigs} \"&\""],
        [name |-> "tier_3_valid",
         template |-> "{severity} 90 \">=\" {human_sig_present} \"&\""],
        [name |-> "kill_switch", template |-> "{severity} 98 \">=\""] >>,
     combination |->
        "{tier_1_valid} {tier_2_valid} {tier_3_valid} \"|\" \"|\" {kill_switch} \"~\" \"&\""]

(***************************************************************************)
(* Bounds of the model                                                     *)
(***************************************************************************)
MaxRoleMask == 7
MaxLedger == 1

(***************************************************************************)
(* State                                                                   *)
(***************************************************************************)
VARIABLES
    currentPolicy,  \* governance._current_policy (its definition)
    process,        \* DAEMON.process: "none", "running" or "exited"
    rpnBinOk,       \* whether the rpn binary can be started
    ledgerLen,      \* lines of audit_log.jsonl
    govCall,        \* the last governance.verify_action call and its result
    clock,          \* time.time(), in ticks
    wIssue,         \* the last Warrant.create call: its ttl and the warrant it returned
    wHeld,          \* the Warrant object as its holder presents it
    wChecked,       \* the last Warrant.is_valid call and its result
    wExpiredSeen,   \* whether and when is_valid first returned False on wHeld past its expiry
    chainFile,      \* audit.chain: the committed entries, one per line
    last_hash,      \* MerkleLogger.last_hash
    sha256Seen,     \* the texts whose SHA-256 digest has been published
    limiter,        \* a RateLimiter: rate, capacity and buckets
    rateLog,        \* the allowed() calls made so far: agent, time and answer
    manifestFile,   \* policies.json
    loadResult,     \* the last load_verified_policies call and its outcome
    kPolicies,      \* CryptoGovernance.policies: name -> Policy
    kNonce,         \* CryptoGovernance.nonce
    kCall,          \* the last CryptoGovernance.verify_action call and its outcome
    kCalls,         \* the verify_action calls made so far
    kBoot,          \* CryptoGovernance.__init__: its position, and what it has set
    gEpoch,         \* governed_graph.GlobalState.epoch
    gHistory,       \* the transitions check_transition logged and the lines it printed
    simPc,          \* TimeSimulation.run: its position
    evalCall,       \* the last Policy.evaluate call a caller made and its result
    kIssued,        \* the nonces of the warrants the kernel issued, in order
    dCall,          \* the last DaemonController.evaluate call and how it went
    thr,            \* concurrent callers: each thread's position and locals
    pipe,           \* the evaluator's stdin and stdout: frames and lines in flight
    store,          \* the audit store as a restart finds it, and the logger built on it
    tCall           \* the last GovernedTool.run call: what it was returned, the tool calls

govOnlyVars == <<currentPolicy, ledgerLen, govCall>>

daemonVars == <<process, rpnBinOk, rpnGe>>

warrantVars == <<wIssue, wHeld, wChecked, wExpiredSeen>>

\* What the actions of one component leave alone.
auditVars == <<chainFile, last_hash, sha256Seen>>

rateVars == <<limiter, rateLog>>

loaderVars == <<manifestFile, loadResult>>

kernelVars == <<kPolicies, kNonce, kCall, kCalls, kBoot, kIssued>>

gateVars == <<gEpoch, gHistory, simPc>>

evalVars == <<evalCall>>

threadVars == <<dCall, thr, pipe>>

hostVars == <<store, tCall>>

notGov == <<rpnGe, clock, warrantVars, auditVars, rateVars, loaderVars, kernelVars, gateVars, evalVars, threadVars, hostVars>>

notDaemon == <<rpnGe, govOnlyVars, clock, warrantVars, auditVars, rateVars, loaderVars, kernelVars, gateVars, evalVars, threadVars, hostVars>>

notWarrant == <<govOnlyVars, daemonVars, auditVars, rateVars, loaderVars, kernelVars, gateVars, evalVars, threadVars, hostVars>>

notAudit == <<govOnlyVars, daemonVars, warrantVars, rateVars, loaderVars, kernelVars, gateVars, evalVars, threadVars, hostVars>>

notRate == <<govOnlyVars, daemonVars, warrantVars, auditVars, loaderVars, kernelVars, gateVars, evalVars, threadVars, hostVars>>

notLoader == <<govOnlyVars, daemonVars, warrantVars, auditVars, rateVars, kernelVars, gateVars, evalVars, threadVars, hostVars>>

notKernel == <<govOnlyVars, daemonVars, warrantVars, auditVars, rateVars, loaderVars, gateVars, evalVars, threadVars, hostVars>>

notClock == <<govOnlyVars, daemonVars, warrantVars, auditVars, rateVars, loaderVars, kernelVars, gateVars, evalVars, threadVars, hostVars>>

vars == <<currentPolicy, process, rpnBinOk, rpnGe, ledgerLen, govCall,
          clock, wIssue, wHeld, wChecked, wExpiredSeen, chainFile, last_hash,
          sha256Seen, limiter, rateLog, manifestFile, loadResult, kPolicies,
          kNonce, kCall, kCalls, kBoot, gEpoch, gHistory, simPc, evalCall, kIssued, dCall, thr, pipe,
          store, tCall>>

(***************************************************************************)
(* governance.py: verify_action, set_active_policy, _log_to_ledger         *)
(***************************************************************************)
RoleMasks == (0 - 1)..MaxRoleMask

UnknownActionNames == {"LAUNCH_NUKES"}

ActionNames == DOMAIN Actions \cup UnknownActionNames

NoOverrides == [k \in {} |-> PyInt(0)]

\* context_overrides: none, the epoch signal, and overrides of the two
\* built-in keys (the action ids around both ends of the safe range).
GovOverrides ==
    {NoOverrides, [epoch |-> PyInt(0)], [epoch |-> PyInt(1)],
     [role_mask |-> PyInt(1)], [role_mask |-> PyInt(4)],
     [action_id |-> PyInt(99)], [action_id |-> PyInt(100)],
     [action_id |-> PyInt(199)], [action_id |-> PyInt(200)]}

GovPolicies == {STANDARD_ACCESS_POLICY, EPOCH_POLICY}

\* overrides that leave the keys already in the context alone
ApplyOverridesKeeping(ctx, ov) ==
    [k \in DOMAIN ctx \cup DOMAIN ov |-> IF k \in DOMAIN ctx THEN ctx[k] ELSE PyStr(ov[k])]

\* context[k] = str(v) for every override
ApplyOverrides(ctx, ov) ==
    [k \in DOMAIN ctx \cup DOMAIN ov |-> IF k \in DOMAIN ov THEN PyStr(ov[k]) ELSE ctx[k]]

UnknownProof ==
    [allowed |-> FALSE,
     trace |-> <<[name |-> "unknown_action", value |-> FALSE]>>,
     policy_name |-> "Unknown"]

GovContext(role_mask, action_name, overrides) ==
    ApplyOverrides([role_mask |-> ToString(role_mask),
                    action_id |-> ToString(Actions[action_name])], overrides)

GovEvaluated(context, e) ==
    [evaluated |-> TRUE, proof |-> e.proof, context |-> context,
     process |-> e.process, trips |-> e.trips]

GovEvaluate(policy, context, proc, binOk) ==
    GovEvaluated(context, PolicyEvaluate(policy, context, proc, binOk))

\* verify_action without the unknown-action return: an unknown name is
\* encoded as id 0 and goes to the policy.
GovDecideUnchecked(policy, role_mask, action_name, overrides, proc, binOk) ==
    GovEvaluate(policy,
                ApplyOverrides(
                    [role_mask |-> ToString(role_mask),
                     action_id |-> IF action_name \in DOMAIN Actions
                                   THEN ToString(Actions[action_name]) ELSE "0"],
                    overrides),
                proc, binOk)

\* verify_action up to the proof: evaluated = FALSE on the unknown-action
\* return, which reaches neither the policy nor the ledger.
GovDecide(policy, role_mask, action_name, overrides, proc, binOk) ==
    IF action_name \notin DOMAIN Actions
    THEN [evaluated |-> FALSE, proof |-> UnknownProof,
          context |-> [role_mask |-> ToString(role_mask)],
          process |-> proc, trips |-> 0]
    ELSE GovEvaluate(policy, GovContext(role_mask, action_name, overrides), proc, binOk)

\* _log_to_ledger: one line appended; a failed write is printed and dropped.
LogToLedger(len, writeOk) == IF writeOk THEN len + 1 ELSE len

GovCommit(role_mask, action_name, overrides, writeOk, d) ==
    /\ govCall' = [called |-> TRUE, role_mask |-> role_mask,
                   action_name |-> action_name, overrides |-> overrides,
                   policy |-> currentPolicy.name,
                   context |-> d.context, evaluated |-> d.evaluated,
                   available |-> (process = "running" \/ rpnBinOk),
                   trips |-> d.trips, proof |-> d.proof]
    /\ process' = d.process
    /\ ledgerLen' = IF d.evaluated THEN LogToLedger(ledgerLen, writeOk) ELSE ledgerLen
    /\ UNCHANGED <<currentPolicy, rpnBinOk, notGov>>

GovVerifyAction(role_mask, action_name, overrides, writeOk) ==
    /\ ~govCall.called
    /\ writeOk => ledgerLen < MaxLedger
    /\ GovCommit(role_mask, action_name, overrides, writeOk,
                 GovDecide(currentPolicy, role_mask, action_name, overrides,
                           process, rpnBinOk))

SetActivePolicy(policy_def) ==
    /\ currentPolicy' = policy_def
    /\ UNCHANGED <<process, rpnBinOk, ledgerLen, govCall, notGov>>

NoCall ==
    [called |-> FALSE, role_mask |-> 0, action_name |-> "", overrides |-> NoOverrides,
     policy |-> "", context |-> [role_mask |-> "0"], evaluated |-> FALSE,
     available |-> FALSE, trips |-> 0, proof |-> UnknownProof]

\* The caller is done with the proof it was returned.
GovReturn ==
    /\ govCall.called
    /\ govCall' = NoCall
    /\ UNCHANGED <<currentPolicy, process, rpnBinOk, ledgerLen, notGov>>

\* The evaluator process dies.
ProcessExits ==
    /\ process = "running"
    /\ process' = "exited"
    /\ UNCHANGED <<rpnBinOk, notDaemon>>

\* The rpn binary is removed or put back.
BinaryChanges ==
    /\ rpnBinOk' = ~rpnBinOk
    /\ UNCHANGED <<process, notDaemon>>

GovInit ==
    /\ currentPolicy = STANDARD_ACCESS_POLICY
    /\ ledgerLen = 0
    /\ govCall = NoCall

\* DAEMON = DaemonController() at import: the first start is attempted.
DaemonInit ==
    /\ rpnBinOk \in BOOLEAN
    /\ rpnGe = FALSE
    /\ process = DaemonStart(rpnBinOk)

GovNext ==
    \/ \E r \in RoleMasks, a \in ActionNames, ov \in GovOverrides, w \in BOOLEAN :
          GovVerifyAction(r, a, ov, w)
    \/ GovReturn
    \/ \E p \in GovPolicies : SetActivePolicy(p)
    \/ ProcessExits
    \/ BinaryChanges

(***************************************************************************)
(* Time                                                                    *)
(***************************************************************************)
MaxClock == 3

\* time.time() moves on.
Tick ==
    /\ clock < MaxClock
    /\ clock' = clock + 1
    /\ UNCHANGED notClock

(***************************************************************************)
(* JSON text (json.dumps) and Ed25519 (nacl.signing)                        *)
(***************************************************************************)
JsonStr(s) == "\"" \o s \o "\""

JsonBool(b) == IF b THEN "true" ELSE "false"

JsonNum(n) == ToString(n)

\* Key files hold hex text; a pair is named by its owner.
SigningKeyOf(owner) == [owner |-> owner, secret |-> TRUE]

VerifyKeyOf(owner) == [owner |-> owner, secret |-> FALSE]

\* SigningKey.sign(payload).signature: 64 bytes that only the holder of the
\* secret half can produce, and that fix both the key and the payload.
Ed25519Sign(signing_key, payload) ==
    [signer |-> signing_key.owner, msg |-> payload, len |-> 64]

\* VerifyKey.verify(payload, signature) does not raise
Ed25519Verify(verify_key, payload, sig) ==
    /\ sig.len = 64
    /\ sig.signer = verify_key.owner
    /\ sig.msg = payload

\* bytes.hex(): lower-case hex text.  Hex text is modelled by the bytes its
\* digits spell and the way it is written.
BytesHex(b) == [digits |-> b, form |-> "lower"]

NoBytes == [signer |-> "", msg |-> "", len |-> 0]

\* bytes.fromhex(text): either case of the letters decodes to the same
\* bytes; text that is not hex raises ValueError.
BytesFromHex(text) ==
    IF text.form \in {"lower", "upper"}
    THEN [ok |-> TRUE, bytes |-> text.digits]
    ELSE [ok |-> FALSE, bytes |-> NoBytes]

\* the same hex text with its letters in upper case
HexUpper(text) == [text EXCEPT !.form = IF @ = "lower" THEN "upper" ELSE @]

\* the hex text of a whole signature without its last two digits
HexTruncated(text) == [text EXCEPT !.digits.len = IF @ = 64 THEN 63 ELSE @]

NotHex == [digits |-> NoBytes, form |-> "nothex"]

(***************************************************************************)
(* governance_crypto.py: Warrant                                           *)
(***************************************************************************)
MaxTtl == 1
MaxTampers == 1
MaxWarrantNonce == 1

\* the JSON text that is signed: the six fields, keys sorted
WarrantPayload(w) ==
    "{" \o JsonStr("action") \o ": " \o JsonStr(w.action) \o ", "
        \o JsonStr("agent_id") \o ": " \o JsonStr(w.agent_id) \o ", "
        \o JsonStr("allowed") \o ": " \o JsonBool(w.allowed) \o ", "
        \o JsonStr("expiry") \o ": " \o JsonNum(w.expiry) \o ", "
        \o JsonStr("nonce") \o ": " \o JsonNum(w.nonce) \o ", "
        \o JsonStr("timestamp") \o ": " \o JsonNum(w.timestamp) \o "}"

WarrantFields(action, agent_id, allowed, timestamp, nonce, expiry) ==
    [action |-> action, agent_id |-> agent_id, allowed |-> allowed,
     timestamp |-> timestamp, nonce |-> nonce, expiry |-> expiry]

WarrantSigned(signing_key, f) ==
    [action |-> f.action, agent_id |-> f.agent_id, allowed |-> f.allowed,
     timestamp |-> f.timestamp, nonce |-> f.nonce, expiry |-> f.expiry,
     signature |-> BytesHex(Ed25519Sign(signing_key, WarrantPayload(f)))]

\* Warrant.create
WarrantCreate(signing_key, action, agent_id, allowed, timestamp, nonce, ttl) ==
    WarrantSigned(signing_key,
                  WarrantFields(action, agent_id, allowed, timestamp, nonce,
                                timestamp + ttl))

\* is_valid without the expiry test
WarrantNeverExpired(now, expiry) == FALSE

\* time.time() > self.expiry
WarrantExpired(now, expiry) == now > expiry

\* vk.verify(payload, bytes.fromhex(self.signature)) inside try/except
WarrantSignatureOk(w, verify_key, decoded) ==
    /\ decoded.ok
    /\ Ed25519Verify(verify_key, WarrantPayload(w), decoded.bytes)

\* Warrant.is_valid
WarrantIsValid(w, verify_key, now) ==
    /\ ~WarrantExpired(now, w.expiry)
    /\ WarrantSignatureOk(w, verify_key, BytesFromHex(w.signature))

ConstableKey == SigningKeyOf("constable")

ConstablePub == VerifyKeyOf("constable")

RootPub == VerifyKeyOf("root")

WarrantActions == {"READ_FILE", "DELETE_DB"}

WarrantAgents == {"agent-1", "agent-2"}

WarrantAttrs ==
    {"action", "agent_id", "allowed", "timestamp", "nonce", "expiry", "signature"}

\* The values a holder can write into an attribute of the object.
WarrantAttrValues(w, attr) ==
    CASE attr = "action" -> WarrantActions
      [] attr = "agent_id" -> WarrantAgents
      [] attr = "allowed" -> BOOLEAN
      [] attr = "timestamp" -> 0..MaxClock
      [] attr = "nonce" -> 0..MaxWarrantNonce
      [] attr = "expiry" -> 0..(MaxClock + MaxTtl)
      [] attr = "signature" ->
            {HexUpper(w.signature), HexTruncated(w.signature), NotHex,
             BytesHex(Ed25519Sign(SigningKeyOf("root"), WarrantPayload(w)))}

NoWarrant ==
    [action |-> "", agent_id |-> "", allowed |-> FALSE, timestamp |-> 0,
     nonce |-> 0, expiry |-> 0, signature |-> NotHex]

NoIssue == [issued |-> FALSE, ttl |-> 0, warrant |-> NoWarrant]

NoCheck ==
    [called |-> FALSE, warrant |-> NoWarrant, key |-> ConstablePub,
     at |-> 0, result |-> FALSE, raised |-> ""]

NotSeen == [seen |-> FALSE, at |-> 0]

WarrantChanged(w, issued) == {attr \in WarrantAttrs : w[attr] # issued[attr]}

\* The constable issues a warrant to a holder.
WarrantIssued(action, agent_id, allowed, nonce, ttl) ==
    /\ ~wChecked.called
    /\ wIssue' = [issued |-> TRUE, ttl |-> ttl,
                  warrant |-> WarrantCreate(ConstableKey, action, agent_id,
                                            allowed, clock, nonce, ttl)]
    /\ wHeld' = wIssue'.warrant
    /\ wExpiredSeen' = NotSeen
    /\ UNCHANGED <<wChecked, clock, notWarrant>>

\* The holder assigns to one attribute of the warrant.
WarrantTamper(attr, v) ==
    /\ wIssue.issued /\ ~wChecked.called
    /\ v # wHeld[attr]
    /\ Cardinality(WarrantChanged(wHeld, wIssue.warrant) \cup {attr}) <= MaxTampers
    /\ wHeld' = [wHeld EXCEPT ![attr] = v]
    /\ wExpiredSeen' = NotSeen
    /\ UNCHANGED <<wIssue, wChecked, clock, notWarrant>>

WarrantCheckedAs(verify_key, result) ==
    /\ wChecked' = [called |-> TRUE, warrant |-> wHeld, key |-> verify_key,
                    at |-> clock, result |-> result, raised |-> ""]
    /\ wExpiredSeen' = IF ~wExpiredSeen.seen /\ ~result /\ clock > wHeld.expiry
                       THEN [seen |-> TRUE, at |-> clock]
                       ELSE wExpiredSeen
    /\ UNCHANGED <<wIssue, wHeld, clock, notWarrant>>

\* A verifier calls is_valid on the presented warrant.
WarrantCheck(verify_key) ==
    /\ wIssue.issued /\ ~wChecked.called
    /\ WarrantCheckedAs(verify_key, WarrantIsValid(wHeld, verify_key, clock))

\* bytes(verify_key).hex(): the 32 bytes of a key as hex text
KeyHex(verify_key) == [key |-> verify_key, form |-> "lower", len |-> 32]

\* The strings a verifier can be handed as public_key_hex: the hex text of
\* a key in either case, text that is not hex, and hex text one byte short.
PublicKeyTexts ==
    {[KeyHex(k) EXCEPT !.form = f, !.len = n] :
        k \in {ConstablePub, RootPub}, f \in {"lower", "upper", "nothex"}, n \in {31, 32}}

\* no key at all
NoKey == VerifyKeyOf("")

\* VerifyKey(public_key_hex, encoder=HexEncoder): text that is not hex
\* fails in the decoder, and a key that is not 32 bytes long is refused
\* (both are ValueErrors).
VerifyKeyFromHex(text) ==
    IF text.form \in {"lower", "upper"} /\ text.len = 32
    THEN [ok |-> TRUE, key |-> text.key]
    ELSE [ok |-> FALSE, key |-> NoKey]

\* Warrant.is_valid(public_key_hex) from the expiry test on: the key is
\* built before the try block, the signature is decoded and verified
\* inside it.
IsValidOf(w, vk, now) ==
    IF WarrantExpired(now, w.expiry) THEN [raised |-> "", result |-> FALSE]
    ELSE IF ~vk.ok THEN [raised |-> "ValueError", result |-> FALSE]
    ELSE [raised |-> "",
          result |-> WarrantSignatureOk(w, vk.key, BytesFromHex(w.signature))]

\* A verifier calls is_valid with the key text it was configured with.
WarrantCheckHex(public_key_hex) ==
    /\ wIssue.issued /\ ~wChecked.called
    /\ wChecked' = [called |-> TRUE, warrant |-> wHeld, key |-> VerifyKeyFromHex(public_key_hex).key,
                    at |-> clock,
                    result |-> IsValidOf(wHeld, VerifyKeyFromHex(public_key_hex),
                                         clock).result,
                    raised |-> IsValidOf(wHeld, VerifyKeyFromHex(public_key_hex),
                                         clock).raised]
    /\ wExpiredSeen' = IF ~wExpiredSeen.seen /\ clock > wHeld.expiry
                       THEN [seen |-> TRUE, at |-> clock]
                       ELSE wExpiredSeen
    /\ UNCHANGED <<wIssue, wHeld, clock, notWarrant>>

\* The verifier is done with the answer.
WarrantCheckReturn ==
    /\ wChecked.called
    /\ wChecked' = NoCheck
    /\ UNCHANGED <<wIssue, wHeld, wExpiredSeen, clock, notWarrant>>

WarrantInit ==
    /\ wIssue = NoIssue
    /\ wHeld = NoWarrant
    /\ wChecked = NoCheck
    /\ wExpiredSeen = NotSeen

WarrantNext ==
    \/ \E a \in WarrantActions, g \in WarrantAgents, al \in BOOLEAN,
          n \in 0..MaxWarrantNonce, ttl \in 0..MaxTtl :
          WarrantIssued(a, g, al, n, ttl)
    \/ \E attr \in WarrantAttrs :
          \E v \in WarrantAttrValues(wHeld, attr) : WarrantTamper(attr, v)
    \/ \E k \in {ConstablePub, RootPub} : WarrantCheck(k)
    \/ \E text \in PublicKeyTexts : WarrantCheckHex(text)
    \/ WarrantCheckReturn
    \/ Tick

(***************************************************************************)
(* JSON values and json.dumps                                              *)
(***************************************************************************)
\* The characters of str keys, in code-point order.
Alphabet == "0123456789ABCDEFGHIJKLMNOPQRSTUVWXYZ_abcdefghijklmnopqrstuvwxyz"

Ord == [c \in {Ch(Alphabet, i) : i \in 1..Len(Alphabet)} |->
            CHOOSE i \in 1..Len(Alphabet) : Ch(Alphabet, i) = c]

\* a < b for Python strings, comparing from position i on
RECURSIVE StrLessFrom(_, _, _)
StrLessFrom(a, b, i) ==
    IF i > Len(b) THEN FALSE
    ELSE IF i > Len(a) THEN TRUE
    ELSE IF Ch(a, i) = Ch(b, i) THEN StrLessFrom(a, b, i + 1)
    ELSE Ord[Ch(a, i)] < Ord[Ch(b, i)]

StrLess(a, b) == StrLessFrom(a, b, 1)

JStr(s) == [kind |-> "str", str |-> s]

JBool(b) == [kind |-> "bool", bool |-> b]

JNum(n) == [kind |-> "num", num |-> n]

\* a dict: its items in insertion order
JObj(items) == [kind |-> "obj", items |-> items]

Item(key, value) == [key |-> key, value |-> value]

\* the escapes json.dumps writes inside a string, from position i on
RECURSIVE JsonEscapeFrom(_, _)
JsonEscapeFrom(s, i) ==
    IF IndexFrom(s, {"\"", "\\"}, i) = 0 THEN SubSeq(s, i, Len(s))
    ELSE SubSeq(s, i, IndexFrom(s, {"\"", "\\"}, i) - 1) \o "\\"
            \o Ch(s, IndexFrom(s, {"\"", "\\"}, i))
            \o JsonEscapeFrom(s, IndexFrom(s, {"\"", "\\"}, i) + 1)

JsonText(s) == JsonStr(JsonEscapeFrom(s, 1))

\* sorted(items) by key: insertion of one item into a sorted list
RECURSIVE SortedInsert(_, _)
SortedInsert(sorted, it) ==
    IF sorted = <<>> THEN <<it>>
    ELSE IF StrLess(it.key, Head(sorted).key) THEN <<it>> \o sorted
    ELSE <<Head(sorted)>> \o SortedInsert(Tail(sorted), it)

RECURSIVE SortItems(_)
SortItems(items) ==
    IF items = <<>> THEN <<>>
    ELSE SortedInsert(SortItems(Tail(items)), Head(items))

ItemOrder(items, sort_keys) == IF sort_keys THEN SortItems(items) ELSE items

\* json.dumps(value, sort_keys=sort_keys)
RECURSIVE JsonDumps(_, _)
RECURSIVE JsonItems(_, _)
JsonItems(items, sort_keys) ==
    IF items = <<>> THEN ""
    ELSE JsonText(Head(items).key) \o ": " \o JsonDumps(Head(items).value, sort_keys)
            \o (IF Len(items) > 1 THEN ", " ELSE "")
            \o JsonItems(Tail(items), sort_keys)

JsonDumps(value, sort_keys) ==
    CASE value.kind = "str" -> JsonText(value.str)
      [] value.kind = "bool" -> JsonBool(value.bool)
      [] value.kind = "num" -> JsonNum(value.num)
      [] value.kind = "obj" ->
            "{" \o JsonItems(ItemOrder(value.items, sort_keys), sort_keys) \o "}"

\* the value of key in a dict; the dict has the key
RECURSIVE JGet(_, _)
JGet(items, key) ==
    IF Head(items).key = key THEN Head(items).value ELSE JGet(Tail(items), key)

JKeys(items) == {items[i].key : i \in 1..Len(items)}

\* del d[key]
RECURSIVE JWithout(_, _)
JWithout(items, key) ==
    IF items = <<>> THEN <<>>
    ELSE IF Head(items).key = key THEN JWithout(Tail(items), key)
    ELSE <<Head(items)>> \o JWithout(Tail(items), key)

(***************************************************************************)
(* governance_crypto.py: MerkleLogger                                      *)
(***************************************************************************)
MaxChain == 2

\* "0" * 64
GenesisHash == "0000000000000000000000000000000000000000000000000000000000000000"

\* hashlib.sha256(text.encode()).hexdigest() as an ideal hash: the texts
\* whose digest has been published are numbered in the order they were first
\* hashed, equal texts have equal digests and different texts different
\* ones.  A digest is 64 hex digits: a fixed prefix and the number.
DigestPrefix == "8d969eef6ecad3c29a3a629280e686cf0c3f5d5a86aff3ca12020c923a"

Pad6(n) == SubSeq("000000", 1, 6 - Len(ToString(n))) \o ToString(n)

DigestHex(n) == DigestPrefix \o Pad6(n)

Sha256Index(seen, text) ==
    IF \E i \in 1..Len(seen) : seen[i] = text
    THEN CHOOSE i \in 1..Len(seen) : seen[i] = text
    ELSE Len(seen) + 1

Sha256Hex(seen, text) == DigestHex(Sha256Index(seen, text))

Sha256Published(seen, text) ==
    IF \E i \in 1..Len(seen) : seen[i] = text THEN seen ELSE Append(seen, text)

\* a context dict {name: str}, its keys listed in insertion order
RECURSIVE ContextItems(_, _)
ContextItems(keys, ctx) ==
    IF keys = <<>> THEN <<>>
    ELSE <<Item(Head(keys), JStr(ctx[Head(keys)]))>> \o ContextItems(Tail(keys), ctx)

\* a DecisionProof trace {clause: bool}
RECURSIVE TraceItems(_)
TraceItems(trace) ==
    IF trace = <<>> THEN <<>>
    ELSE <<Item(Head(trace).name, JBool(Head(trace).value))>> \o TraceItems(Tail(trace))

\* entry = {"prev_hash": ..., "ts": ..., "agent": ..., ...}
ChainEntry(prev_hash, ts, agent_id, policy_name, inputs, result_bool, trace) ==
    <<Item("prev_hash", JStr(prev_hash)), Item("ts", JNum(ts)),
      Item("agent", JStr(agent_id)), Item("policy", JStr(policy_name)),
      Item("inputs", JObj(inputs)), Item("decision", JBool(result_bool)),
      Item("trace", JObj(trace))>>

\* serialized = json.dumps(entry, sort_keys=True)
Serialized(entry) == JsonDumps(JObj(entry), TRUE)

\* curr_hash = hashlib.sha256(serialized.encode()).hexdigest()
EntryHash(seen, entry) == Sha256Hex(seen, Serialized(entry))

\* entry['curr_hash'] = curr_hash
Committed(entry, curr_hash) == entry \o <<Item("curr_hash", JStr(curr_hash))>>

\* log_decision that forgets to move last_hash
LoggerStays(last, curr_hash) == last

\* self.last_hash = curr_hash
LoggerAdvance(last, curr_hash) == curr_hash

\* log_decision that moves last_hash before the entry is in the file
LogDecisionOfAdvancing(file, last, seen, entry, writeOk) ==
    IF writeOk
    THEN [raised |-> FALSE,
          file |-> Append(file, Committed(entry, EntryHash(seen, entry))),
          last_hash |-> LoggerAdvance(last, EntryHash(seen, entry)),
          seen |-> Sha256Published(seen, Serialized(entry))]
    ELSE [raised |-> TRUE, file |-> file,
          last_hash |-> LoggerAdvance(last, EntryHash(seen, entry)),
          seen |-> Sha256Published(seen, Serialized(entry))]

\* log_decision: the file and last_hash afterwards; when the file cannot be
\* opened for append the exception leaves both as they were, and the
\* digest that was computed is seen by nobody.
LogDecisionOf(file, last, seen, entry, writeOk) ==
    IF writeOk
    THEN [raised |-> FALSE,
          file |-> Append(file, Committed(entry, EntryHash(seen, entry))),
          last_hash |-> LoggerAdvance(last, EntryHash(seen, entry)),
          seen |-> Sha256Published(seen, Serialized(entry))]
    ELSE [raised |-> TRUE, file |-> file, last_hash |-> last, seen |-> seen]

LogDecision(file, last, seen, ts, agent_id, policy_name, inputs, result_bool, trace, writeOk) ==
    LogDecisionOf(file, last, seen,
                  ChainEntry(last, ts, agent_id, policy_name, inputs, result_bool, trace),
                  writeOk)

\* _get_last_hash on a file of committed entries
GetLastHash(file) ==
    IF file = <<>> THEN GenesisHash ELSE JGet(file[Len(file)], "curr_hash").str

\* The decisions logged in the audit specification.
AuditDecisions ==
    { [policy |-> "StandardAccess",
       inputs |-> ContextItems(<<"role_mask", "action_id", "is_admin", "is_safe_action">>,
                     [role_mask |-> "4", action_id |-> "902", is_admin |-> "1",
                      is_safe_action |-> "0"]),
       decision |-> TRUE,
       trace |-> TraceItems(<<[name |-> "is_admin", value |-> TRUE],
                              [name |-> "is_safe_action", value |-> FALSE]>>)],
      [policy |-> "StandardAccess",
       inputs |-> ContextItems(<<"role_mask", "action_id", "is_admin", "is_safe_action">>,
                     [role_mask |-> "1", action_id |-> "202", is_admin |-> "0",
                      is_safe_action |-> "0"]),
       decision |-> FALSE,
       trace |-> TraceItems(<<[name |-> "is_admin", value |-> FALSE],
                              [name |-> "is_safe_action", value |-> FALSE]>>)],
      [policy |-> "EpochGov",
       inputs |-> ContextItems(<<"role_mask", "action_id", "epoch", "is_normal_mode",
                                 "is_emergency_mode", "is_admin">>,
                     [role_mask |-> "1", action_id |-> "101", epoch |-> "1",
                      is_normal_mode |-> "0", is_emergency_mode |-> "1",
                      is_admin |-> "0"]),
       decision |-> TRUE,
       trace |-> TraceItems(<<[name |-> "is_normal_mode", value |-> FALSE],
                              [name |-> "is_emergency_mode", value |-> TRUE],
                              [name |-> "is_admin", value |-> FALSE]>>)] }

AuditCommit(r) ==
    /\ chainFile' = r.file
    /\ last_hash' = r.last_hash
    /\ sha256Seen' = r.seen
    /\ UNCHANGED <<clock, notAudit>>

\* One log_decision call on the logger.
AuditLogDecision(agent_id, d, writeOk) ==
    /\ writeOk => Len(chainFile) < MaxChain
    /\ AuditCommit(LogDecision(chainFile, last_hash, sha256Seen, clock, agent_id, d.policy,
                               d.inputs, d.decision, d.trace, writeOk))

\* MerkleLogger("audit.chain") on a store with no file
AuditInit ==
    /\ chainFile = <<>>
    /\ last_hash = GetLastHash(chainFile)
    /\ sha256Seen = <<>>

AuditNext ==
    \/ \E g \in WarrantAgents, d \in AuditDecisions, w \in BOOLEAN :
          AuditLogDecision(g, d, w)
    \/ Tick

(***************************************************************************)
(* crypto_governance.py: RateLimiter                                       *)
(***************************************************************************)
\* time.time() is read on the grid of values the clock can return: the
\* clock counts ticks, TicksPerSecond of them in a second.  A bucket's
\* tokens are counted in 1/TicksPerSecond of a token, so that
\* delta * rate is exact.
TicksPerSecond == 4

Capacity == 2

TokenUnits(tokens) == tokens * TicksPerSecond

Min(a, b) == IF a <= b THEN a ELSE b

\* RateLimiter(rate, capacity)
RateLimiter(rate, capacity) ==
    [rate |-> rate, capacity |-> capacity, buckets |-> [g \in {} |-> 0]]

\* a lookup that falls back on whatever bucket is stored
BucketOfAny(lim, agent_id, now) ==
    IF agent_id \in DOMAIN lim.buckets THEN lim.buckets[agent_id]
    ELSE IF DOMAIN lim.buckets # {}
    THEN lim.buckets[CHOOSE g \in DOMAIN lim.buckets : TRUE]
    ELSE [tokens |-> TokenUnits(lim.capacity), last |-> now]

\* self.buckets.get(agent_id, (self.capacity, now))
BucketOf(lim, agent_id, now) ==
    IF agent_id \in DOMAIN lim.buckets THEN lim.buckets[agent_id]
    ELSE [tokens |-> TokenUnits(lim.capacity), last |-> now]

\* a refill without the cap
RefilledUncapped(lim, bucket, now) ==
    bucket.tokens + (now - bucket.last) * lim.rate

\* tokens = min(self.capacity, tokens + delta * self.rate)
Refilled(lim, bucket, now) ==
    Min(TokenUnits(lim.capacity), bucket.tokens + (now - bucket.last) * lim.rate)

\* tokens >= 1.0
HasOneToken(tokens) == tokens >= TokenUnits(1)

\* a refusal that empties the bucket
AllowedOfResetting(lim, agent_id, now, tokens) ==
    IF HasOneToken(tokens)
    THEN [ok |-> TRUE,
          limiter |-> [lim EXCEPT !.buckets =
                          (agent_id :> [tokens |-> tokens - TokenUnits(1), last |-> now]) @@ @]]
    ELSE [ok |-> FALSE,
          limiter |-> [lim EXCEPT !.buckets =
                          (agent_id :> [tokens |-> 0, last |-> now]) @@ @]]

\* if tokens >= 1.0: ... return True / else: ... return False
AllowedOf(lim, agent_id, now, tokens) ==
    IF HasOneToken(tokens)
    THEN [ok |-> TRUE,
          limiter |-> [lim EXCEPT !.buckets =
                          (agent_id :> [tokens |-> tokens - TokenUnits(1), last |-> now]) @@ @]]
    ELSE [ok |-> FALSE,
          limiter |-> [lim EXCEPT !.buckets =
                          (agent_id :> [tokens |-> tokens, last |-> now]) @@ @]]

\* RateLimiter.allowed
Allowed(lim, agent_id, now) ==
    AllowedOf(lim, agent_id, now, Refilled(lim, BucketOf(lim, agent_id, now), now))

\* The rates the limiter of the rate specification is built with.
Rates == {2, 3}

MaxCalls == Capacity + 3

RateReturned(agent_id, r) ==
    /\ limiter' = r.limiter
    /\ rateLog' = Append(rateLog, [agent |-> agent_id, t |-> clock, ok |-> r.ok])
    /\ UNCHANGED <<clock, notRate>>

\* One allowed() call.
RateAllowed(agent_id) ==
    /\ Len(rateLog) < MaxCalls
    /\ RateReturned(agent_id, Allowed(limiter, agent_id, clock))

RateInit ==
    /\ limiter \in {RateLimiter(r, Capacity) : r \in Rates}
    /\ rateLog = <<>>

RateNext ==
    \/ \E g \in WarrantAgents : RateAllowed(g)
    \/ Tick

(***************************************************************************)
(* sign_policies.py and policy_loader.py: the signed policy manifest       *)
(***************************************************************************)
\* {clause: template, ...} in declaration order
RECURSIVE ClauseItems(_)
ClauseItems(clauses) ==
    IF clauses = <<>> THEN <<>>
    ELSE <<Item(Head(clauses).name, JStr(Head(clauses).template))>>
            \o ClauseItems(Tail(clauses))

\* a policy definition dict of registry.py
PolicyDef(p) ==
    JObj(<<Item("name", JStr(p.name)), Item("clauses", JObj(ClauseItems(p.clauses))),
           Item("combination", JStr(p.combination))>>)

\* POLICIES (the two policies the kernel selects)
POLICIES ==
    <<Item("StandardAccess", PolicyDef(STANDARD_ACCESS_POLICY)),
      Item("EpochGov", PolicyDef(EPOCH_POLICY))>>

RootKey == SigningKeyOf("root")

\* payload = json.dumps(policies, sort_keys=True)
ManifestPayload(policies) == JsonDumps(JObj(policies), TRUE)

\* policies.json as json.load reads it; exists and parses say whether the
\* file can be opened and is JSON, has says which of the two fields the
\* object has.
Manifest(signature, policies) ==
    [exists |-> TRUE, parses |-> TRUE, has |-> {"signature", "policies"},
     signature |-> signature, policies |-> policies]

\* sign_manifest
SignedManifest(signing_key, policies) ==
    Manifest(BytesHex(Ed25519Sign(signing_key, ManifestPayload(policies))), policies)

LoadRaised(error) == [raised |-> error, policies |-> <<>>]

LoadReturned(policies) == [raised |-> "", policies |-> policies]

\* verify_key.verify(payload, signature) in try/except: every exception
\* of the verification becomes SecurityError
LoadVerify(file, public_key, signature) ==
    IF Ed25519Verify(public_key, ManifestPayload(file.policies), signature)
    THEN LoadReturned(file.policies)
    ELSE LoadRaised("SecurityError")

\* load_verified_policies
LoadVerifiedPolicies(file, public_key) ==
    IF ~file.exists THEN LoadRaised("FileNotFoundError")
    ELSE IF ~file.parses THEN LoadRaised("JSONDecodeError")
    ELSE IF "signature" \notin file.has THEN LoadRaised("KeyError")
    ELSE IF ~BytesFromHex(file.signature).ok THEN LoadRaised("ValueError")
    ELSE IF "policies" \notin file.has THEN LoadRaised("KeyError")
    ELSE LoadVerify(file, public_key, BytesFromHex(file.signature).bytes)

\* d[key] = value, the key staying where it is
RECURSIVE JSet(_, _, _)
JSet(items, key, value) ==
    IF items = <<>> THEN <<>>
    ELSE IF Head(items).key = key THEN <<Item(key, value)>> \o Tail(items)
    ELSE <<Head(items)>> \o JSet(Tail(items), key, value)

\* the same items with the first two exchanged
SwapFirstTwo(items) ==
    IF Len(items) < 2 THEN items
    ELSE <<items[2], items[1]>> \o SubSeq(items, 3, Len(items))

ClausesOf(policies, name) == JGet(JGet(policies, name).items, "clauses").items

WithClauses(policies, name, clauses) ==
    JSet(policies, name, JObj(JSet(JGet(policies, name).items, "clauses", JObj(clauses))))

NoLoad ==
    [called |-> FALSE, key |-> RootPub, file |-> Manifest(NotHex, <<>>),
     raised |-> "", policies |-> <<>>]

Editable == manifestFile.exists /\ manifestFile.parses /\ ~loadResult.called

ManifestWritten(file) ==
    /\ manifestFile' = file
    /\ UNCHANGED <<loadResult, clock, notLoader>>

\* The operator runs sign_policies.py.
SignManifest ==
    /\ ~loadResult.called
    /\ ManifestWritten(SignedManifest(RootKey, POLICIES))

\* Someone with write access to policies.json edits it: the clauses of one
\* policy in another order,
ManifestReorderClauses(name) ==
    /\ Editable /\ name \in JKeys(manifestFile.policies)
    /\ ManifestWritten([manifestFile EXCEPT !.policies =
          WithClauses(@, name, SwapFirstTwo(ClausesOf(@, name)))])

\* the policies in another order,
ManifestReorderPolicies ==
    /\ Editable
    /\ ManifestWritten([manifestFile EXCEPT !.policies = SwapFirstTwo(@)])

\* the template of a policy's first clause replaced,
ManifestEditClause(name, template) ==
    /\ Editable /\ name \in JKeys(manifestFile.policies)
    /\ ManifestWritten([manifestFile EXCEPT !.policies =
          WithClauses(@, name,
              <<Item(Head(ClausesOf(@, name)).key, JStr(template))>>
                  \o Tail(ClausesOf(@, name)))])

\* a policy removed,
ManifestDropPolicy(name) ==
    /\ Editable /\ name \in JKeys(manifestFile.policies)
    /\ ManifestWritten([manifestFile EXCEPT !.policies = JWithout(@, name)])

\* the signature replaced,
ManifestSetSignature(signature) ==
    /\ Editable /\ signature # manifestFile.signature
    /\ ManifestWritten([manifestFile EXCEPT !.signature = signature])

\* one of the two fields removed,
ManifestDropField(field) ==
    /\ Editable /\ field \in manifestFile.has
    /\ ManifestWritten([manifestFile EXCEPT !.has = @ \ {field}])

\* the text cut so that it is no longer JSON,
ManifestCorrupt ==
    /\ Editable
    /\ ManifestWritten([manifestFile EXCEPT !.parses = FALSE])

\* or the file removed.
ManifestDelete ==
    /\ manifestFile.exists /\ ~loadResult.called
    /\ ManifestWritten([manifestFile EXCEPT !.exists = FALSE])

\* The signatures written over the operator's: its text in upper case or
\* cut short, text that is not hex, and a signature by another key.
ManifestSignatures ==
    {HexUpper(SignedManifest(RootKey, POLICIES).signature),
     HexTruncated(SignedManifest(RootKey, POLICIES).signature), NotHex,
     BytesHex(Ed25519Sign(ConstableKey, ManifestPayload(POLICIES)))}

LoadDone(public_key, r) ==
    /\ loadResult' = [called |-> TRUE, key |-> public_key, file |-> manifestFile,
                      raised |-> r.raised, policies |-> r.policies]
    /\ UNCHANGED <<manifestFile, clock, notLoader>>

\* One load_verified_policies call.
Load(public_key) ==
    /\ ~loadResult.called
    /\ LoadDone(public_key, LoadVerifiedPolicies(manifestFile, public_key))

\* The caller is done with the outcome.
LoadReturn ==
    /\ loadResult.called
    /\ loadResult' = NoLoad
    /\ UNCHANGED <<manifestFile, clock, notLoader>>

\* policies.json as sign_policies.py wrote it
LoaderInit ==
    /\ manifestFile = SignedManifest(RootKey, POLICIES)
    /\ loadResult = NoLoad

LoaderNext ==
    \/ SignManifest
    \/ \E name \in JKeys(POLICIES) : ManifestReorderClauses(name)
    \/ ManifestReorderPolicies
    \/ \E name \in JKeys(POLICIES) : ManifestEditClause(name, "1")
    \/ \E name \in JKeys(POLICIES) : ManifestDropPolicy(name)
    \/ \E s \in ManifestSignatures : ManifestSetSignature(s)
    \/ \E field \in {"signature", "policies"} : ManifestDropField(field)
    \/ ManifestCorrupt
    \/ ManifestDelete
    \/ \E k \in {RootPub, ConstablePub} : Load(k)
    \/ LoadReturn

(***************************************************************************)
(* crypto_governance.py: CryptoGovernance                                  *)
(***************************************************************************)
MaxKernelCalls == 2
MaxKernelClock == 1

\* action_map: ACTIONS.get(action_name, 0)
ActionMap(action_name) ==
    IF action_name \in DOMAIN Actions THEN Actions[action_name] ELSE 0

\* the clauses dict of a definition, in its order
RECURSIVE ClausesFromItems(_)
ClausesFromItems(items) ==
    IF items = <<>> THEN <<>>
    ELSE <<[name |-> Head(items).key, template |-> Head(items).value.str]>>
            \o ClausesFromItems(Tail(items))

\* Policy(defn) of a definition read from the manifest
PolicyOfDef(defn) ==
    [name |-> JGet(defn.items, "name").str,
     clauses |-> ClausesFromItems(JGet(defn.items, "clauses").items),
     combination |-> JGet(defn.items, "combination").str]

\* self.policies = {name: Policy(defn) for name, defn in self.policies_def.items()}
KernelPolicies(policies_def) ==
    [name \in JKeys(policies_def) |-> PolicyOfDef(JGet(policies_def, name))]

SignedInt(neg, mag) ==
    IF mag < 0 THEN [ok |-> FALSE, int |-> 0]
    ELSE [ok |-> TRUE, int |-> IF neg THEN 0 - mag ELSE mag]

\* int(s) of a str: an optional sign and decimal digits, anything else is
\* ValueError (the blanks and underscores int() also accepts occur in no
\* text of the model).
PyIntOf(s) ==
    IF Len(s) > 1 /\ Ch(s, 1) \in {"-", "+"}
    THEN SignedInt(Ch(s, 1) = "-", ParseDigits(s, 10, 2, 0))
    ELSE IF Len(s) > 0 THEN SignedInt(FALSE, ParseDigits(s, 10, 1, 0))
    ELSE SignedInt(FALSE, 0 - 1)

\* ttl=60, in ticks
KernelTtl == 60 * TicksPerSecond

\* The keys of context_overrides, in the order they are written into the
\* context (the model lists them sorted).
RECURSIVE KeysOf(_)
KeysOf(keys) ==
    IF keys = {} THEN <<>>
    ELSE <<CHOOSE k \in keys : \A j \in keys : j = k \/ StrLess(k, j)>>
            \o KeysOf(keys \ {CHOOSE k \in keys : \A j \in keys : j = k \/ StrLess(k, j)})

\* dict insertion order: the keys of more that order does not have yet go
\* to its end
RECURSIVE KeysAdded(_, _)
KeysAdded(order, more) ==
    IF more = <<>> THEN order
    ELSE IF \E i \in 1..Len(order) : order[i] = Head(more)
    THEN KeysAdded(order, Tail(more))
    ELSE KeysAdded(Append(order, Head(more)), Tail(more))

ClauseNames(clauses) == [i \in 1..Len(clauses) |-> clauses[i].name]

\* The keys of the context after policy.evaluate, in insertion order.
ContextOrder(overrides, policy) ==
    KeysAdded(KeysAdded(<<"role_mask", "action_id">>, KeysOf(DOMAIN overrides)),
              ClauseNames(policy.clauses))

\* context = {"role_mask": ..., "action_id": str(action_map(action))} and
\* the update with the overrides
KernelContext(req) ==
    ApplyOverrides([role_mask |-> ToString(req.role_mask),
                    action_id |-> ToString(ActionMap(req.action))], req.overrides)

NoProof == [allowed |-> FALSE, trace |-> <<>>, policy_name |-> ""]

\* What a verify_action call leaves behind and hands back: a warrant or
\* the exception that left it.
VerifyResult(st, outcome, raised, reason, policy_name, e, appended, warrant) ==
    [outcome |-> outcome, raised |-> raised, reason |-> reason,
     policy_name |-> policy_name, evaluated |-> e.evaluated, proof |-> e.proof,
     context |-> e.ctx, trips |-> e.trips, appended |-> appended, warrant |-> warrant,
     limiter |-> st.limiter, file |-> st.file, last_hash |-> st.last_hash,
     seen |-> st.seen, nonce |-> st.nonce, process |-> e.process]

NotEvaluated(st, context) ==
    [evaluated |-> FALSE, proof |-> NoProof, ctx |-> context, trips |-> 0,
     process |-> st.process]

KernelEvaluated(e) ==
    [evaluated |-> TRUE, proof |-> e.proof, ctx |-> e.ctx, trips |-> e.trips,
     process |-> e.process]

\* a warrant issued without the counter being stored back
KernelWarrantStale(st, req, reason, policy_name, e, appended, allowed) ==
    VerifyResult(st, "warrant", "", reason, policy_name, e, appended,
                 WarrantCreate(ConstableKey, req.action, req.agent_id, allowed,
                               st.now, st.nonce + 1, KernelTtl))

\* self.nonce += 1 and Warrant.create(..., nonce=self.nonce, ttl=60)
KernelWarrant(st, req, reason, policy_name, e, appended, allowed) ==
    VerifyResult([st EXCEPT !.nonce = @ + 1], "warrant", "", reason, policy_name, e,
                 appended,
                 WarrantCreate(ConstableKey, req.action, req.agent_id, allowed,
                               st.now, st.nonce + 1, KernelTtl))

\* _deny issuing a warrant that allows
KernelDenyAllowing(st, req, reason, policy_name, context) ==
    KernelWarrant(st, req, reason, policy_name, NotEvaluated(st, context), FALSE, TRUE)

\* _deny
KernelDeny(st, req, reason, policy_name, context) ==
    KernelWarrant(st, req, reason, policy_name, NotEvaluated(st, context), FALSE, FALSE)

\* an exception leaves verify_action
KernelRaised(st, error, policy_name, e) ==
    VerifyResult(st, "raised", error, "", policy_name, e, FALSE, NoWarrant)

\* steps 3 and 4 of verify_action: the entry is appended (a log_decision
\* that cannot write raises and the logger stays as log_decision left it),
\* then the counter moves and the warrant is signed with the decision of
\* the proof
KernelIssue(st, req, policy_name, e, log) ==
    IF log.raised
    THEN KernelRaised([st EXCEPT !.file = log.file, !.last_hash = log.last_hash,
                                 !.seen = log.seen],
                      "OSError", policy_name, e)
    ELSE KernelWarrant([st EXCEPT !.file = log.file, !.last_hash = log.last_hash,
                                  !.seen = log.seen],
                       req, "", policy_name, e, TRUE, e.proof.allowed)

KernelLog(st, req, policy_name, e) ==
    KernelIssue(st, req, policy_name, KernelEvaluated(e),
                LogDecision(st.file, st.last_hash, st.seen, st.now, req.agent_id,
                            policy_name,
                            ContextItems(ContextOrder(req.overrides,
                                                      st.policies[policy_name]), e.ctx),
                            e.proof.allowed, TraceItems(e.proof.trace), req.writeOk))

\* the policy lookup and policy.evaluate(context)
KernelEvaluate(st, req, context, policy_name) ==
    IF policy_name \notin DOMAIN st.policies
    THEN KernelDeny(st, req, "PolicyNotFound", policy_name, context)
    ELSE KernelLog(st, req, policy_name,
                   PolicyEvaluate(st.policies[policy_name], context, st.process, st.binOk))

\* policy_name: "EpochGov" when there are overrides, the context has an
\* epoch and int(context["epoch"]) > 0
KernelSelectOf(st, req, context, epoch) ==
    IF ~epoch.ok THEN KernelRaised(st, "ValueError", "StandardAccess", NotEvaluated(st, context))
    ELSE KernelEvaluate(st, req, context,
                        IF epoch.int > 0 THEN "EpochGov" ELSE "StandardAccess")

KernelSelect(st, req, context) ==
    IF DOMAIN req.overrides # {} /\ "epoch" \in DOMAIN context
    THEN KernelSelectOf(st, req, context, PyIntOf(context["epoch"]))
    ELSE KernelEvaluate(st, req, context, "StandardAccess")

KernelLimited(st, req, r) ==
    IF ~r.ok
    THEN KernelDeny([st EXCEPT !.limiter = r.limiter], req, "RateLimitExceeded", "",
                    [k \in {} |-> ""])
    ELSE KernelSelect([st EXCEPT !.limiter = r.limiter], req, KernelContext(req))

\* CryptoGovernance.verify_action
KernelVerify(st, req) ==
    KernelLimited(st, req, Allowed(st.limiter, req.agent_id, st.now))

KernelRequest(agent_id, action, role_mask, overrides, writeOk) ==
    [agent_id |-> agent_id, action |-> action, role_mask |-> role_mask,
     overrides |-> overrides, writeOk |-> writeOk]

\* The kernel object and what it reaches: its policies, limiter, logger,
\* counter, the evaluator process and the clock.
KernelState ==
    [policies |-> kPolicies, limiter |-> limiter, file |-> chainFile,
     last_hash |-> last_hash, seen |-> sha256Seen, nonce |-> kNonce,
     process |-> process, binOk |-> rpnBinOk, now |-> clock]

NoKernelCall ==
    [called |-> FALSE, agent_id |-> "", action |-> "", role_mask |-> 0,
     overrides |-> NoOverrides, at |-> 0, nonce_before |-> 0, chain_before |-> 0,
     available |-> FALSE, outcome |-> "", raised |-> "", reason |-> "",
     policy_name |-> "", evaluated |-> FALSE, proof |-> NoProof,
     context |-> [k \in {} |-> ""], trips |-> 0, appended |-> FALSE,
     warrant |-> NoWarrant]

KernelCommit(req, r) ==
    /\ kCall' = [called |-> TRUE, agent_id |-> req.agent_id, action |-> req.action,
                 role_mask |-> req.role_mask, overrides |-> req.overrides,
                 at |-> clock, nonce_before |-> kNonce, chain_before |-> Len(chainFile),
                 available |-> (process = "running" \/ rpnBinOk),
                 outcome |-> r.outcome, raised |-> r.raised, reason |-> r.reason,
                 policy_name |-> r.policy_name, evaluated |-> r.evaluated,
                 proof |-> r.proof, context |-> r.context, trips |-> r.trips,
                 appended |-> r.appended, warrant |-> r.warrant]
    /\ limiter' = r.limiter
    /\ chainFile' = r.file
    /\ last_hash' = r.last_hash
    /\ sha256Seen' = r.seen
    /\ kNonce' = r.nonce
    /\ kCalls' = kCalls + 1
    /\ kIssued' = IF r.outcome = "warrant" THEN Append(kIssued, r.warrant.nonce) ELSE kIssued
    /\ process' = r.process
    /\ UNCHANGED <<kPolicies, kBoot, rpnBinOk, rpnGe, rateLog, clock, govOnlyVars, warrantVars,
                   loaderVars, gateVars, evalVars, threadVars, hostVars>>

\* One verify_action call on the kernel.
KernelVerifyAction(agent_id, action, role_mask, overrides, writeOk) ==
    /\ kBoot.pc = "up"
    /\ ~kCall.called
    /\ kCalls < MaxKernelCalls
    /\ writeOk => Len(chainFile) < MaxChain
    /\ KernelCommit(KernelRequest(agent_id, action, role_mask, overrides, writeOk),
                    KernelVerify(KernelState,
                                 KernelRequest(agent_id, action, role_mask, overrides,
                                               writeOk)))

\* The caller is done with what it was returned.
KernelReturn ==
    /\ kCall.called
    /\ kCall' = NoKernelCall
    /\ UNCHANGED <<kPolicies, kNonce, kCalls, kBoot, kIssued, clock, notKernel>>

\* The manifests the operator signs for the kernel: all policies, or
\* StandardAccess alone.
KernelManifests == {POLICIES, <<POLICIES[1]>>}

KernelAgents == {"agent-1"}

\* self.limiter as __init__ builds it, and as a burst of calls by agent_id
\* in the first instant leaves it when each of them left verify_action by
\* an exception after allowed() (a non-numeric epoch): every call took its
\* token and changed nothing else of the kernel.
KernelLimiters ==
    {RateLimiter(10, 20),
     [RateLimiter(10, 20) EXCEPT !.buckets =
         [g \in KernelAgents |-> [tokens |-> 0, last |-> 0]]]}

KernelActions == {"READ_FILE", "DELETE_DB"} \cup UnknownActionNames

KernelRoles == {1, ROLE_ADMIN}

KernelOverrides ==
    {NoOverrides, [epoch |-> PyInt(1)], [epoch |-> PyS("high")], [epoch |-> PyInt(0)],
     [epoch |-> PyInt(0 - 1)], [role_mask |-> PyInt(ROLE_ADMIN)],
     [action_id |-> PyInt(101), epoch |-> PyInt(1)]}

\* The overrides of the calls made on a kernel that is still booting.
BootOverrides == {NoOverrides, [epoch |-> PyInt(1)], [epoch |-> PyS("high")]}

\* What __init__ has set once it is through.
KernelAttrs ==
    {"root_pub", "constable_priv", "constable_pub", "policies_def", "policies",
     "logger", "limiter", "nonce"}

\* Before CryptoGovernance(...) is called: no object.
NotBooted ==
    [pc |-> "new", raised |-> "", file |-> Manifest(NotHex, <<>>),
     policies_def |-> <<>>, attrs |-> {}]

\* A constructed kernel that booted from file.
Booted(file) ==
    [pc |-> "up", raised |-> "", file |-> file,
     policies_def |-> LoadVerifiedPolicies(file, RootPub).policies,
     attrs |-> KernelAttrs]

NoPolicies == [name \in {} |-> STANDARD_ACCESS_POLICY]

\* What the steps of __init__ leave alone.
bootFrame ==
    <<kCall, kCalls, clock, govOnlyVars, daemonVars, warrantVars, loaderVars, rateLog,
      chainFile, sha256Seen, gateVars, evalVars, threadVars, hostVars, kIssued>>

\* __init__ is left by an exception: no object is returned.
BootRaise(error) == [kBoot EXCEPT !.pc = "failed", !.raised = error]

\* 1. Load Keys: a missing keys.json is RuntimeError
BootLoadKeys(keysOk) ==
    /\ kBoot.pc = "new"
    /\ kBoot' = IF keysOk
                THEN [kBoot EXCEPT !.pc = "keys",
                         !.attrs = @ \cup {"root_pub", "constable_priv", "constable_pub"}]
                ELSE BootRaise("RuntimeError")
    /\ UNCHANGED <<kPolicies, last_hash, limiter, kNonce, bootFrame>>

\* load_verified_policies that returns whatever the file holds
BootNeverFailed(r) == FALSE

\* an exception of load_verified_policies leaves __init__
BootFailed(r) == r.raised # ""

BootVerified(file, r) ==
    IF BootFailed(r) THEN [BootRaise(r.raised) EXCEPT !.file = file]
    ELSE [kBoot EXCEPT !.pc = "verified", !.file = file, !.policies_def = r.policies,
                       !.attrs = @ \cup {"policies_def"}]

\* 2. Secure Boot: self.policies_def = load_verified_policies(...)
BootVerify ==
    /\ kBoot.pc = "keys"
    /\ kBoot' = BootVerified(manifestFile, LoadVerifiedPolicies(manifestFile, RootPub))
    /\ UNCHANGED <<kPolicies, last_hash, limiter, kNonce, bootFrame>>

\* self.policies = {name: Policy(defn) ...}
BootPolicies ==
    /\ kBoot.pc = "verified"
    /\ kPolicies' = KernelPolicies(kBoot.policies_def)
    /\ kBoot' = [kBoot EXCEPT !.pc = "policies", !.attrs = @ \cup {"policies"}]
    /\ UNCHANGED <<last_hash, limiter, kNonce, bootFrame>>

\* 3. self.logger = MerkleLogger("audit.chain")
BootLogger ==
    /\ kBoot.pc = "policies"
    /\ last_hash' = GetLastHash(chainFile)
    /\ kBoot' = [kBoot EXCEPT !.pc = "logger", !.attrs = @ \cup {"logger"}]
    /\ UNCHANGED <<kPolicies, limiter, kNonce, bootFrame>>

\* 4. self.limiter = RateLimiter(rate=10.0, capacity=20.0)
BootLimiter ==
    /\ kBoot.pc = "logger"
    /\ limiter' = RateLimiter(10, 20)
    /\ kBoot' = [kBoot EXCEPT !.pc = "limiter", !.attrs = @ \cup {"limiter"}]
    /\ UNCHANGED <<kPolicies, last_hash, kNonce, bootFrame>>

\* 5. self.nonce = 0; the object is returned
BootNonce ==
    /\ kBoot.pc = "limiter"
    /\ kNonce' = 0
    /\ kBoot' = [kBoot EXCEPT !.pc = "up", !.attrs = @ \cup {"nonce"}]
    /\ UNCHANGED <<kPolicies, last_hash, limiter, bootFrame>>

\* No CryptoGovernance object yet.
BootInit ==
    /\ kBoot = NotBooted
    /\ kPolicies = NoPolicies
    /\ kNonce = 0
    /\ kCalls = 0
    /\ kIssued = <<>>
    /\ kCall = NoKernelCall

\* One edit of policies.json as the operator signed it, while the kernel
\* boots and runs.
ManifestEdited ==
    /\ manifestFile = SignedManifest(RootKey, POLICIES)
    /\ \/ \E name \in JKeys(POLICIES) : ManifestReorderClauses(name)
       \/ \E name \in JKeys(POLICIES) : ManifestEditClause(name, "1")
       \/ \E name \in JKeys(POLICIES) : ManifestDropPolicy(name)
       \/ \E s \in ManifestSignatures : ManifestSetSignature(s)
       \/ ManifestCorrupt

BootNext ==
    \/ \E keysOk \in BOOLEAN : BootLoadKeys(keysOk)
    \/ BootVerify
    \/ BootPolicies
    \/ BootLogger
    \/ BootLimiter
    \/ BootNonce
    \/ ManifestEdited
    \/ SignManifest
    \/ \E g \in KernelAgents, a \in KernelActions, r \in KernelRoles,
          ov \in BootOverrides, w \in BOOLEAN : KernelVerifyAction(g, a, r, ov, w)
    \/ KernelReturn

\* CryptoGovernance(): the verified policies, a fresh counter
KernelInit ==
    /\ kBoot = Booted(manifestFile)
    /\ kPolicies = KernelPolicies(LoadVerifiedPolicies(manifestFile, RootPub).policies)
    /\ kNonce = 0
    /\ kCalls = 0
    /\ kIssued = <<>>
    /\ kCall = NoKernelCall

KernelNext ==
    \/ \E g \in KernelAgents, a \in KernelActions, r \in KernelRoles,
          ov \in KernelOverrides, w \in BOOLEAN : KernelVerifyAction(g, a, r, ov, w)
    \/ KernelReturn
    \/ ProcessExits
    \/ BinaryChanges
    \/ clock < MaxKernelClock /\ Tick

(***************************************************************************)
(* governed_graph.py: Gatekeeper and TimeSimulation                        *)
(***************************************************************************)
MaxHistory == 4

ROLE_GUEST == 1

ROLE_USER == 2

\* What check_transition and the steps of the run leave alone.
gateFrame ==
    <<govCall, rpnBinOk, rpnGe, clock, warrantVars, auditVars, rateVars, loaderVars,
      kernelVars, evalVars, threadVars, hostVars>>

\* the gate of check_transition with every clause sufficient
GateAnyClause(normal, emergency, admin) == normal \/ emergency \/ admin

\* allowed = is_normal or (is_emergency and is_admin)
GateAllowed(normal, emergency, admin) == normal \/ (emergency /\ admin)

\* proof.allowed = allowed; state.log_transition(next_node, proof); the
\* APPROVED / DENIED line that is printed
GateLogged(agent, role, next_node, d, allowed) ==
    [agent |-> agent, role |-> role, epoch |-> gEpoch,
     available |-> (process = "running" \/ rpnBinOk),
     from |-> "START", to |-> next_node,
     proof |-> [d.proof EXCEPT !.allowed = allowed],
     status |-> IF allowed THEN "APPROVED" ELSE "DENIED",
     printed |-> [approved |-> allowed,
                  normal |-> TraceGet(d.proof.trace, "is_normal_mode"),
                  emergency |-> TraceGet(d.proof.trace, "is_emergency_mode"),
                  admin |-> TraceGet(d.proof.trace, "is_admin")]]

GateCommit(agent, role, next_node, writeOk, d) ==
    /\ process' = d.process
    /\ ledgerLen' = IF d.evaluated THEN LogToLedger(ledgerLen, writeOk) ELSE ledgerLen
    /\ gHistory' = Append(gHistory,
          GateLogged(agent, role, next_node, d,
                     GateAllowed(TraceGet(d.proof.trace, "is_normal_mode"),
                                 TraceGet(d.proof.trace, "is_emergency_mode"),
                                 TraceGet(d.proof.trace, "is_admin"))))

\* Gatekeeper.check_transition(state, next_node)
CheckTransition(agent, role, next_node, writeOk) ==
    /\ writeOk => ledgerLen < MaxLedger
    /\ GateCommit(agent, role, next_node, writeOk,
                  GovDecide(currentPolicy, role, "NET_CONNECT", [epoch |-> PyInt(gEpoch)],
                            process, rpnBinOk))

\* TimeSimulation.run: set_active_policy(EPOCH_POLICY)
SimSetPolicy ==
    /\ simPc = "start"
    /\ currentPolicy' = EPOCH_POLICY
    /\ simPc' = "phase1"
    /\ UNCHANGED <<process, ledgerLen, gEpoch, gHistory, gateFrame>>

\* GlobalState.epoch = 0, then GlobalState.epoch = 1
SimSetEpoch ==
    /\ simPc \in {"phase1", "phase2"}
    /\ gEpoch' = IF simPc = "phase1" THEN 0 ELSE 1
    /\ simPc' = IF simPc = "phase1" THEN "guest0" ELSE "guest1"
    /\ UNCHANGED <<currentPolicy, process, ledgerLen, gHistory, gateFrame>>

\* the three Gatekeeper.check_transition calls of the run
SimCheck(writeOk) ==
    /\ simPc \in {"guest0", "guest1", "admin1"}
    /\ CheckTransition(IF simPc = "admin1" THEN "Admin" ELSE "Guest",
                       IF simPc = "admin1" THEN ROLE_ADMIN ELSE ROLE_GUEST,
                       "CONNECT", writeOk)
    /\ simPc' = CASE simPc = "guest0" -> "phase2"
                  [] simPc = "guest1" -> "admin1"
                  [] simPc = "admin1" -> "done"
    /\ UNCHANGED <<currentPolicy, gEpoch, gateFrame>>

\* After the run: the epoch is set by whoever owns GlobalState,
GateSetEpoch(epoch) ==
    /\ simPc = "done"
    /\ gEpoch # epoch
    /\ gEpoch' = epoch
    /\ UNCHANGED <<currentPolicy, process, ledgerLen, gHistory, simPc, gateFrame>>

\* and check_transition is called for other agents.
GateCheck(role, writeOk) ==
    /\ simPc = "done"
    /\ Len(gHistory) < MaxHistory
    /\ CheckTransition("Agent-001", role, "CONNECT", writeOk)
    /\ UNCHANGED <<currentPolicy, gEpoch, simPc, gateFrame>>

GateRoles == {0, ROLE_GUEST, ROLE_USER, ROLE_ADMIN, ROLE_ADMIN + ROLE_GUEST}

\* class GlobalState: epoch = 0; no transition logged, the run not started
GateInit ==
    /\ gEpoch = 0
    /\ gHistory = <<>>
    /\ simPc = "start"

GateNext ==
    \/ SimSetPolicy
    \/ SimSetEpoch
    \/ \E w \in BOOLEAN : SimCheck(w)
    \/ \E e \in {0, 1} : GateSetEpoch(e)
    \/ \E r \in GateRoles, w \in BOOLEAN : GateCheck(r, w)
    \/ ProcessExits
    \/ BinaryChanges

(***************************************************************************)
(* governance.py: Policy objects evaluated by their callers, with the      *)
(* contexts soc_simulation.py and contention_simulation.py build           *)
(***************************************************************************)
NoContext == [k \in {} |-> ""]

NoEvalCall ==
    [called |-> FALSE, policy |-> STANDARD_ACCESS_POLICY, context |-> NoContext,
     process |-> "none", binOk |-> FALSE,
     proof |-> [allowed |-> FALSE, trace |-> <<>>, policy_name |-> ""],
     ctx |-> NoContext, trips |-> 0]

evalFrame ==
    <<currentPolicy, ledgerLen, govCall, rpnBinOk, rpnGe, clock, warrantVars, auditVars,
      rateVars, loaderVars, kernelVars, gateVars, threadVars, hostVars>>

EvalCommit(pol, context, e) ==
    /\ evalCall' = [called |-> TRUE, policy |-> pol, context |-> context,
                    process |-> process, binOk |-> rpnBinOk,
                    proof |-> e.proof, ctx |-> e.ctx, trips |-> e.trips]
    /\ process' = e.process

\* proof = policy.evaluate(context) on Policy(policy_def)
PolicyEvaluateCall(policy_def, context) ==
    /\ ~evalCall.called
    /\ EvalCommit(policy_def, context, PolicyEvaluate(policy_def, context, process, rpnBinOk))
    /\ UNCHANGED evalFrame

\* The caller is done with the proof.
PolicyEvaluateReturn ==
    /\ evalCall.called
    /\ evalCall' = NoEvalCall
    /\ UNCHANGED <<process, evalFrame>>

SigFlags == {"0", "1"}

\* Severities on both sides of the thresholds 30, 70 and 95 of SOCMatrix.
SocSeverities == {"29", "30", "82", "94", "95", "99"}

\* The context verify_signatures leaves for verify_soc_action.
SocContexts ==
    {[severity |-> s, investigator_sig |-> i, human_sig |-> h] :
        s \in SocSeverities, i \in SigFlags, h \in SigFlags}

\* Severities on both sides of the thresholds 40, 70, 90 and 98 of
\* ConstitutionalIR.
IrSeverities == {"39", "55", "76", "92", "98", "99"}

\* full_context of resolve_incident
IrContexts ==
    {[severity |-> s, evidence |-> "log_data_hash_123", containment_sig |-> a,
      continuity_sig |-> b, human_sig |-> h] :
        s \in IrSeverities, a \in SigFlags, b \in SigFlags, h \in SigFlags}

\* Contexts in which the caller already put a value under a clause's name.
IrPreset ==
    {CtxSet(CtxSet(c, "one_sig", "1"), "kill_switch", "0") :
        c \in {x \in IrContexts : x.severity \in {"55", "99"}}}

\* Policy definitions whose clauses fail in each way a clause can fail: a
\* reference to a later clause, a missing variable, a malformed template
\* and an evaluator error; the last clause reads earlier results.
ProbeClauses ==
    <<[name |-> "early", template |-> "{late}"],
      [name |-> "absent", template |-> "{nowhere} 1 \"=\""],
      [name |-> "broken", template |-> "{role_mask"],
      [name |-> "faulty", template |-> "1 0 \"/\""],
      [name |-> "late", template |-> "{role_mask} 4 \"=\""],
      [name |-> "echo", template |-> "{late} {faulty} \"|\""],
      [name |-> "both", template |-> "{late} {faulty} \"&\""]>>

ProbePolicies ==
    {[name |-> "Probe", clauses |-> ProbeClauses, combination |-> c] :
        c \in {"OR", "AND", "{echo} {early} \"~\" \"&\"", "{nowhere}"}}

\* Policy definitions whose clauses can all hold, under both built-in
\* combinations.
PairPolicies ==
    {[name |-> "Pair",
      clauses |-> <<[name |-> "is_admin", template |-> "{role_mask} 4 \"&\" 4 \"=\""],
                    [name |-> "is_four", template |-> "{role_mask} 4 \"=\""]>>,
      combination |-> c] : c \in {"AND", "OR"}}

\* The caller's contexts for the probe: plain, and with values already
\* under the names of clauses.
ProbeContexts ==
    {[role_mask |-> "4"], [role_mask |-> "1"],
     [role_mask |-> "4", late |-> "1"], [role_mask |-> "1", late |-> "1"],
     [role_mask |-> "4", faulty |-> "1"], [role_mask |-> "4", faulty |-> "1", late |-> "0"]}

EvalInit == evalCall = NoEvalCall

EvalNext ==
    \/ \E c \in SocContexts : PolicyEvaluateCall(SOC_ESCALATION_POLICY, c)
    \/ \E c \in IrContexts \cup IrPreset : PolicyEvaluateCall(CONSTITUTIONAL_IR_POLICY, c)
    \/ \E p \in ProbePolicies \cup PairPolicies, c \in ProbeContexts :
          PolicyEvaluateCall(p, c)
    \/ PolicyEvaluateReturn
    \/ ProcessExits
    \/ BinaryChanges

(***************************************************************************)
(* governance.py: DaemonController.evaluate with what can happen to the    *)
(* evaluator process during the call                                       *)
(***************************************************************************)
\* What the process does once the liveness check has passed: it answers;
\* it is gone when the frame is written (BrokenPipeError); it exits after
\* reading the frame, so that readline returns b""; or the exchange fails
\* with another exception.
DaemonFates == {"answers", "pipe", "eof", "error"}

\* The try block of evaluate and its except branches, after starts calls
\* of _start in this call.
DaemonExchange(tokens, binOk, fate, starts) ==
    CASE fate = "answers" ->
            [out |-> RpnRespond(Frame(tokens)), process |-> "running", starts |-> starts]
      [] fate = "pipe" ->
            [out |-> "0", process |-> DaemonStart(binOk), starts |-> starts + 1]
      [] fate = "eof" -> [out |-> "", process |-> "exited", starts |-> starts]
      [] fate = "error" -> [out |-> "0", process |-> "running", starts |-> starts]

\* if not self.process: return "0"
DaemonChecked(tokens, p, binOk, fate, starts) ==
    IF p # "running" THEN [out |-> "0", process |-> p, starts |-> starts]
    ELSE DaemonExchange(tokens, binOk, fate, starts)

\* DaemonController.evaluate(expr_tokens): DaemonEvaluate is this call with
\* a process that answers.
DaemonCall(tokens, proc, binOk, fate) ==
    DaemonChecked(tokens, IF proc # "running" THEN DaemonStart(binOk) ELSE proc, binOk,
                  fate, IF proc # "running" THEN 1 ELSE 0)

NoDaemonCall ==
    [called |-> FALSE, tokens |-> <<>>, process |-> "none", binOk |-> FALSE,
     fate |-> "", out |-> "", starts |-> 0, by |-> "", verdict |-> FALSE]

daemonFrame ==
    <<rpnBinOk, rpnGe, govOnlyVars, clock, warrantVars, auditVars, rateVars, loaderVars,
      kernelVars, gateVars, evalVars, thr, pipe, hostVars>>

DaemonCommit(tokens, fate, r) ==
    /\ dCall' = [called |-> TRUE, tokens |-> tokens, process |-> process,
                 binOk |-> rpnBinOk, fate |-> fate, out |-> r.out, starts |-> r.starts,
                 by |-> "evaluate", verdict |-> FALSE]
    /\ process' = r.process

\* One DAEMON.evaluate call.
DaemonEvaluateCall(tokens, fate) ==
    /\ ~dCall.called
    /\ DaemonCommit(tokens, fate, DaemonCall(tokens, process, rpnBinOk, fate))
    /\ UNCHANGED daemonFrame

\* The caller is done with the output.
\* what _run_kernel makes of the string DAEMON.evaluate returned
RunKernelOf(r) == KernelResult([out |-> r.out, process |-> r.process, trips |-> 0])

RunKernelCommit(args, fate, r) ==
    /\ dCall' = [called |-> TRUE, tokens |-> args, process |-> process,
                 binOk |-> rpnBinOk, fate |-> fate, out |-> r.out, starts |-> r.starts,
                 by |-> "_run_kernel", verdict |-> RunKernelOf(r).result]
    /\ process' = r.process

\* One Policy._run_kernel call: the tokens of the expression without their
\* quotes go to DAEMON.evaluate, and the answer is compared with "1".
RunKernelCall(rpn_expr, fate) ==
    /\ ~dCall.called
    /\ RunKernelCommit(KernelArgs(rpn_expr), fate,
                       DaemonCall(KernelArgs(rpn_expr), process, rpnBinOk, fate))
    /\ UNCHANGED daemonFrame

\* The expressions _run_kernel is called with: answers 1, 0, 2, 5, -1, 6,
\* and diagnostic text.
RunKernelExprs ==
    {"1", "0", "4 4 \"=\"", "1 1 \"+\"", "2 3 \"+\"", "0 1 \"-\"", "7 6 \"&\"",
     "\"+\"", "1 0 \"/\""}

DaemonEvaluateReturn ==
    /\ dCall.called
    /\ dCall' = NoDaemonCall
    /\ UNCHANGED <<process, daemonFrame>>

DaemonTokens ==
    {<<"1">>, <<"0">>, <<"4", "4", "=">>, <<"1", "0", "/">>, <<"+">>, <<"2", "3", "+">>}

NoThreads == <<>>

EmptyPipe == [stdin |-> <<>>, stdout |-> <<>>]

\* No evaluate call made, no concurrent caller, nothing in the pipe.
ThreadInit ==
    /\ dCall = NoDaemonCall
    /\ thr = NoThreads
    /\ pipe = EmptyPipe

DaemonCallNext ==
    \/ \E tokens \in DaemonTokens, fate \in DaemonFates : DaemonEvaluateCall(tokens, fate)
    \/ \E e \in RunKernelExprs, fate \in DaemonFates : RunKernelCall(e, fate)
    \/ DaemonEvaluateReturn
    \/ ProcessExits
    \/ BinaryChanges

(***************************************************************************)
(* Concurrent callers.  The code takes no lock anywhere, so a thread can   *)
(* be preempted between any two accesses to shared state; each action      *)
(* below is one such access by one thread.                                 *)
(***************************************************************************)
Threads == {"t1", "t2"}

ThreadSet(t, v) == [thr EXCEPT ![t] = v]

(***************************************************************************)
(* governance.py: DaemonController.evaluate, the write and the read of the *)
(* round trip, by concurrent callers on a running evaluator                *)
(***************************************************************************)
PipeIdle == [pc |-> "idle", tokens |-> <<>>, out |-> ""]

pipeFrame ==
    <<govOnlyVars, daemonVars, clock, warrantVars, auditVars, rateVars, loaderVars,
      kernelVars, gateVars, evalVars, dCall, hostVars>>

\* self.process.stdin.write(packet); self.process.stdin.flush()
PipeWrite(t, tokens) ==
    /\ process = "running"
    /\ thr[t].pc = "idle"
    /\ pipe' = [pipe EXCEPT !.stdin = Append(@, Frame(tokens))]
    /\ thr' = ThreadSet(t, [pc |-> "written", tokens |-> tokens, out |-> ""])
    /\ UNCHANGED pipeFrame

\* The evaluator reads the next frame from its stdin and prints the
\* response line.
RpnServes ==
    /\ pipe.stdin # <<>>
    /\ pipe' = [stdin |-> Tail(pipe.stdin),
                stdout |-> Append(pipe.stdout, RpnRespond(Head(pipe.stdin)))]
    /\ UNCHANGED <<thr, pipeFrame>>

\* output_bytes = self.process.stdout.readline(), which waits for a line
PipeRead(t) ==
    /\ thr[t].pc = "written"
    /\ pipe.stdout # <<>>
    /\ pipe' = [pipe EXCEPT !.stdout = Tail(@)]
    /\ thr' = ThreadSet(t, [thr[t] EXCEPT !.pc = "done", !.out = Head(pipe.stdout)])
    /\ UNCHANGED pipeFrame

\* return output_bytes.decode('utf-8').strip(), and the caller is done
\* with it
PipeReturn(t) ==
    /\ thr[t].pc = "done"
    /\ thr' = ThreadSet(t, PipeIdle)
    /\ UNCHANGED <<pipe, pipeFrame>>

PipeInit ==
    /\ dCall = NoDaemonCall
    /\ pipe = EmptyPipe
    /\ thr = [t \in Threads |-> PipeIdle]

PipeNext ==
    \/ \E t \in Threads, tokens \in DaemonTokens : PipeWrite(t, tokens)
    \/ RpnServes
    \/ \E t \in Threads : PipeRead(t)
    \/ \E t \in Threads : PipeReturn(t)

(***************************************************************************)
(* governance_crypto.py: MerkleLogger.log_decision by concurrent callers   *)
(* of verify_action on one kernel                                          *)
(***************************************************************************)
AppendIdle == [pc |-> "idle", entry |-> <<>>, curr_hash |-> ""]

appendFrame ==
    <<govOnlyVars, daemonVars, warrantVars, rateVars, loaderVars, kernelVars, gateVars,
      evalVars, dCall, pipe, hostVars>>

\* the calls that have built an entry and not yet written it
AppendPending == Cardinality({u \in Threads : thr[u].pc = "built"})

\* entry = {"prev_hash": self.last_hash, "ts": time.time(), ...};
\* serialized = json.dumps(entry, sort_keys=True);
\* curr_hash = hashlib.sha256(serialized.encode()).hexdigest()
AppendBuild(t, agent_id, d) ==
    /\ thr[t].pc = "idle"
    /\ Len(chainFile) + AppendPending < MaxChain
    /\ thr' = ThreadSet(t,
                [pc |-> "built",
                 entry |-> ChainEntry(last_hash, clock, agent_id, d.policy, d.inputs,
                                      d.decision, d.trace),
                 curr_hash |-> EntryHash(sha256Seen,
                                  ChainEntry(last_hash, clock, agent_id, d.policy,
                                             d.inputs, d.decision, d.trace))])
    /\ sha256Seen' = Sha256Published(sha256Seen,
                        Serialized(ChainEntry(last_hash, clock, agent_id, d.policy,
                                              d.inputs, d.decision, d.trace)))
    /\ UNCHANGED <<chainFile, last_hash, clock, appendFrame>>

\* entry['curr_hash'] = curr_hash;
\* with open(self.filepath, 'a') as f: f.write(json.dumps(entry) + "\n")
AppendWrite(t) ==
    /\ thr[t].pc = "built"
    /\ chainFile' = Append(chainFile, Committed(thr[t].entry, thr[t].curr_hash))
    /\ thr' = ThreadSet(t, [thr[t] EXCEPT !.pc = "written"])
    /\ UNCHANGED <<last_hash, sha256Seen, clock, appendFrame>>

\* self.last_hash = curr_hash, and the call returns
AppendAdvance(t) ==
    /\ thr[t].pc = "written"
    /\ last_hash' = LoggerAdvance(last_hash, thr[t].curr_hash)
    /\ thr' = ThreadSet(t, AppendIdle)
    /\ UNCHANGED <<chainFile, sha256Seen, clock, appendFrame>>

AppendInit ==
    /\ dCall = NoDaemonCall
    /\ pipe = EmptyPipe
    /\ thr = [t \in Threads |-> AppendIdle]

AppendNext ==
    \/ \E t \in Threads, g \in WarrantAgents, d \in AuditDecisions : AppendBuild(t, g, d)
    \/ \E t \in Threads : AppendWrite(t)
    \/ \E t \in Threads : AppendAdvance(t)
    \/ Tick

(***************************************************************************)
(* crypto_governance.py: RateLimiter.allowed by concurrent callers         *)
(***************************************************************************)
BucketIdle == [pc |-> "idle", agent |-> "", now |-> 0, tokens |-> 0]

bucketFrame ==
    <<govOnlyVars, daemonVars, warrantVars, auditVars, loaderVars, kernelVars, gateVars,
      evalVars, dCall, pipe, hostVars>>

\* the calls that have read the bucket and not yet written it
BucketPending == Cardinality({u \in Threads : thr[u].pc = "read"})

\* now = time.time(); tokens, last = self.buckets.get(agent_id, ...);
\* tokens = min(self.capacity, tokens + delta * self.rate)
BucketRead(t, agent_id) ==
    /\ thr[t].pc = "idle"
    /\ Len(rateLog) + BucketPending < MaxCalls
    /\ thr' = ThreadSet(t,
                [pc |-> "read", agent |-> agent_id, now |-> clock,
                 tokens |-> Refilled(limiter, BucketOf(limiter, agent_id, clock), clock)])
    /\ UNCHANGED <<limiter, rateLog, clock, bucketFrame>>

\* if tokens >= 1.0: self.buckets[agent_id] = (tokens - 1.0, now); return True
\* else: self.buckets[agent_id] = (tokens, now); return False
BucketWrite(t) ==
    /\ thr[t].pc = "read"
    /\ limiter' = AllowedOf(limiter, thr[t].agent, thr[t].now, thr[t].tokens).limiter
    /\ rateLog' = Append(rateLog,
                     [agent |-> thr[t].agent, t |-> thr[t].now,
                      ok |-> AllowedOf(limiter, thr[t].agent, thr[t].now,
                                       thr[t].tokens).ok])
    /\ thr' = ThreadSet(t, BucketIdle)
    /\ UNCHANGED <<clock, bucketFrame>>

BucketInit ==
    /\ dCall = NoDaemonCall
    /\ pipe = EmptyPipe
    /\ thr = [t \in Threads |-> BucketIdle]

BucketNext ==
    \/ \E t \in Threads, g \in WarrantAgents : BucketRead(t, g)
    \/ \E t \in Threads : BucketWrite(t)
    \/ Tick

(***************************************************************************)
(* crypto_governance.py: the counter and the warrant of verify_action and  *)
(* _deny, by concurrent callers on one kernel                              *)
(***************************************************************************)
MaxIssued == 3

NonceIdle ==
    [pc |-> "idle", agent_id |-> "", action |-> "", allowed |-> FALSE, loaded |-> 0,
     warrant |-> NoWarrant]

nonceFrame ==
    <<govOnlyVars, daemonVars, warrantVars, auditVars, rateVars, loaderVars, gateVars,
      evalVars, dCall, pipe, hostVars, kPolicies, kCall, kCalls, kBoot>>

\* the calls on their way to a warrant
NoncePending == Cardinality({u \in Threads : thr[u].pc \in {"loaded", "stored"}})

\* self.nonce += 1, the load of the attribute
NonceLoad(t, agent_id, action, allowed) ==
    /\ thr[t].pc = "idle"
    /\ Len(kIssued) + NoncePending < MaxIssued
    /\ thr' = ThreadSet(t, [pc |-> "loaded", agent_id |-> agent_id, action |-> action,
                            allowed |-> allowed, loaded |-> kNonce,
                            warrant |-> NoWarrant])
    /\ UNCHANGED <<kNonce, kIssued, clock, nonceFrame>>

\* self.nonce += 1, the store of the sum
NonceStore(t) ==
    /\ thr[t].pc = "loaded"
    /\ kNonce' = thr[t].loaded + 1
    /\ thr' = ThreadSet(t, [thr[t] EXCEPT !.pc = "stored"])
    /\ UNCHANGED <<kIssued, clock, nonceFrame>>

\* Warrant.create(self.constable_priv, action, agent_id, allowed,
\* time.time(), nonce=self.nonce, ttl=60)
NonceUse(t) ==
    /\ thr[t].pc = "stored"
    /\ thr' = ThreadSet(t,
                [thr[t] EXCEPT !.pc = "issued",
                               !.warrant = WarrantCreate(ConstableKey, thr[t].action,
                                               thr[t].agent_id, thr[t].allowed, clock,
                                               kNonce, KernelTtl)])
    /\ kIssued' = Append(kIssued, kNonce)
    /\ UNCHANGED <<kNonce, clock, nonceFrame>>

\* The caller is done with the warrant it was returned.
NonceReturn(t) ==
    /\ thr[t].pc = "issued"
    /\ thr' = ThreadSet(t, NonceIdle)
    /\ UNCHANGED <<kNonce, kIssued, clock, nonceFrame>>

NonceInit ==
    /\ dCall = NoDaemonCall
    /\ pipe = EmptyPipe
    /\ thr = [t \in Threads |-> NonceIdle]

NonceNext ==
    \/ \E t \in Threads, g \in WarrantAgents, a \in {"READ_FILE", "DELETE_DB"},
          allowed \in BOOLEAN : NonceLoad(t, g, a, allowed)
    \/ \E t \in Threads : NonceStore(t)
    \/ \E t \in Threads : NonceUse(t)
    \/ \E t \in Threads : NonceReturn(t)

(***************************************************************************)
(* governance_crypto.py: MerkleLogger.__init__ and _get_last_hash on the   *)
(* store a restart finds                                                   *)
(***************************************************************************)
MaxRestarts == 2

recoverFrame ==
    <<govOnlyVars, daemonVars, warrantVars, rateVars, loaderVars, kernelVars, gateVars,
      evalVars, threadVars, tCall>>

\* audit.chain exists once an entry was appended or somebody created it
StoreExists == chainFile # <<>> \/ store.touched

\* _get_last_hash: open(self.filepath, 'r') on a missing file is the
\* FileNotFoundError the method catches; on a file the process may not read
\* it is a PermissionError, which nothing catches; no lines is the genesis
\* hash, and otherwise the curr_hash of the last line.
RecoverLastHash(file, exists, readable) ==
    IF ~exists THEN [raised |-> "", last_hash |-> GenesisHash]
    ELSE IF ~readable THEN [raised |-> "PermissionError", last_hash |-> ""]
    ELSE [raised |-> "", last_hash |-> GetLastHash(file)]

LoggerBuilt(r) ==
    /\ store' = [store EXCEPT !.up = (r.raised = ""), !.raised = r.raised,
                              !.restarts = @ + 1]
    /\ last_hash' = IF r.raised = "" THEN r.last_hash ELSE last_hash
    /\ UNCHANGED <<chainFile, sha256Seen, clock, recoverFrame>>

\* The process restarts: MerkleLogger("audit.chain") is constructed anew.
LoggerRestart ==
    /\ store.restarts < MaxRestarts
    /\ LoggerBuilt(RecoverLastHash(chainFile, StoreExists, store.readable))

\* Somebody creates audit.chain empty.
StoreTouched ==
    /\ ~StoreExists
    /\ store' = [store EXCEPT !.touched = TRUE]
    /\ UNCHANGED <<auditVars, clock, recoverFrame>>

\* The permissions of audit.chain are changed.
StoreChmod ==
    /\ store' = [store EXCEPT !.readable = ~@]
    /\ UNCHANGED <<auditVars, clock, recoverFrame>>

\* log_decision on the logger of the running process
RecoverAppend(agent_id, d, writeOk) ==
    /\ store.up
    /\ AuditLogDecision(agent_id, d, writeOk)

StoreInit ==
    store = [touched |-> FALSE, readable |-> TRUE, up |-> TRUE, raised |-> "",
             restarts |-> 0]

RecoverNext ==
    \/ LoggerRestart
    \/ StoreTouched
    \/ StoreChmod
    \/ \E g \in WarrantAgents, d \in AuditDecisions, w \in BOOLEAN :
          RecoverAppend(g, d, w)
    \/ Tick

(***************************************************************************)
(* tool_wrapper.py: GovernedTool, and the gate of reasoning_loop.py        *)
(***************************************************************************)
toolFrame ==
    <<currentPolicy, govCall, rpnBinOk, rpnGe, clock, warrantVars, auditVars, rateVars,
      loaderVars, kernelVars, gateVars, evalVars, threadVars, store>>

\* epoch_gate_func(trace): is_normal or (is_emergency and is_admin), each
\* read with trace.get(name, False)
EpochGateFunc(trace) ==
    \/ TraceGet(trace, "is_normal_mode")
    \/ TraceGet(trace, "is_emergency_mode") /\ TraceGet(trace, "is_admin")

\* a wrapper that never asks the gate function
ToolAllowedByProof(gate_func, proof) == proof.allowed

\* allowed = self.gate_func(proof.trace) if self.gate_func else proof.allowed
ToolAllowed(gate_func, proof) ==
    IF gate_func = "epoch_gate_func" THEN EpochGateFunc(proof.trace) ELSE proof.allowed

\* the dict run returns on denial
ToolDenied(proof) ==
    [status |-> "DENIED", error |-> "Governance Policy Failed", proof |-> proof.trace,
     policy |-> proof.policy_name]

\* what the wrapped function returns; the fields of a denial are absent
ToolReturned ==
    [status |-> "DONE", error |-> "", proof |-> <<>>, policy |-> ""]

\* steps 3 and 4 of run: the denial record, or the call of self.tool
ToolEnforce(proof, allowed) ==
    IF ~allowed THEN [invoked |-> 0, result |-> ToolDenied(proof)]
    ELSE [invoked |-> 1, result |-> ToolReturned]

ToolCommit(gate_func, writeOk, d, r) ==
    /\ tCall' = [called |-> TRUE, gate_func |-> gate_func, evaluated |-> d.evaluated,
                 proof |-> d.proof, invoked |-> r.invoked, result |-> r.result]
    /\ process' = d.process
    /\ ledgerLen' = IF d.evaluated THEN LogToLedger(ledgerLen, writeOk) ELSE ledgerLen
    /\ UNCHANGED toolFrame

ToolDecided(gate_func, writeOk, d) ==
    ToolCommit(gate_func, writeOk, d, ToolEnforce(d.proof, ToolAllowed(gate_func, d.proof)))

\* GovernedTool(tool_func, role_mask, action_name, context_overrides,
\* gate_func).run(**kwargs)
ToolRun(role_mask, action_name, overrides, gate_func, writeOk) ==
    /\ ~tCall.called
    /\ writeOk => ledgerLen < MaxLedger
    /\ ToolDecided(gate_func, writeOk,
                   GovDecide(currentPolicy, role_mask, action_name, overrides, process,
                             rpnBinOk))

NoToolCall ==
    [called |-> FALSE, gate_func |-> "", evaluated |-> FALSE, proof |-> UnknownProof,
     invoked |-> 0, result |-> ToolReturned]

\* The agent is done with what run returned.
ToolReturn ==
    /\ tCall.called
    /\ tCall' = NoToolCall
    /\ UNCHANGED <<process, ledgerLen, toolFrame>>

\* set_active_policy(policy_def) by the program that builds the tools
ToolSetPolicy(policy_def) ==
    /\ currentPolicy' = policy_def
    /\ UNCHANGED <<process, rpnBinOk, rpnGe, ledgerLen, govCall, tCall, clock, warrantVars,
                   auditVars, rateVars, loaderVars, kernelVars, gateVars, evalVars,
                   threadVars, store>>

ToolRoles == {ROLE_GUEST, ROLE_ADMIN}

ToolActions == {"NET_CONNECT", "READ_FILE"} \cup UnknownActionNames

ToolOverrides == {NoOverrides, [epoch |-> PyInt(0)], [epoch |-> PyInt(1)]}

\* gate_func=None, and gate_func=epoch_gate_func
ToolGates == {"", "epoch_gate_func"}

ToolInit == tCall = NoToolCall

HostInit == StoreInit /\ ToolInit

ToolNext ==
    \/ \E r \in ToolRoles, a \in ToolActions, ov \in ToolOverrides, g \in ToolGates,
          w \in BOOLEAN : ToolRun(r, a, ov, g, w)
    \/ ToolReturn
    \/ \E p \in GovPolicies : ToolSetPolicy(p)
    \/ ProcessExits
    \/ BinaryChanges

(***************************************************************************)
(* Specifications: one per component, the other components at rest         *)
(***************************************************************************)
\* A component at rest while another is exercised.
DaemonIdle == rpnBinOk = TRUE /\ rpnGe = FALSE /\ process = DaemonStart(TRUE)

RateIdle == limiter = RateLimiter(10, 20) /\ rateLog = <<>>

Init ==
    /\ GovInit /\ DaemonInit /\ clock = 0 /\ WarrantInit /\ AuditInit /\ RateIdle
    /\ LoaderInit /\ KernelInit /\ GateInit /\ EvalInit /\ HostInit /\ ThreadInit

Next == GovNext

Spec == Init /\ [][Next]_vars

InitWarrant ==
    /\ GovInit /\ DaemonIdle /\ clock = 0 /\ WarrantInit /\ AuditInit /\ RateIdle
    /\ LoaderInit /\ KernelInit /\ GateInit /\ EvalInit /\ HostInit /\ ThreadInit

NextWarrant == WarrantNext

SpecWarrant == InitWarrant /\ [][NextWarrant]_vars

InitAudit == InitWarrant

NextAudit == AuditNext

SpecAudit == InitAudit /\ [][NextAudit]_vars

InitRate ==
    /\ GovInit /\ DaemonIdle /\ clock = 0 /\ WarrantInit /\ AuditInit /\ RateInit
    /\ LoaderInit /\ KernelInit /\ GateInit /\ EvalInit /\ HostInit /\ ThreadInit

NextRate == RateNext

SpecRate == InitRate /\ [][NextRate]_vars

InitLoader == InitWarrant

NextLoader == LoaderNext

SpecLoader == InitLoader /\ [][NextLoader]_vars

\* The kernel booted from a manifest the operator signed.
InitKernel ==
    /\ GovInit /\ DaemonInit /\ clock = 0 /\ WarrantInit /\ AuditInit
    /\ limiter \in KernelLimiters /\ rateLog = <<>>
    /\ manifestFile \in {SignedManifest(RootKey, p) : p \in KernelManifests}
    /\ loadResult = NoLoad
    /\ KernelInit /\ GateInit /\ EvalInit /\ HostInit /\ ThreadInit

NextKernel == KernelNext

SpecKernel == InitKernel /\ [][NextKernel]_vars

\* The kernel from before its construction on.
InitBoot ==
    /\ GovInit /\ DaemonIdle /\ clock = 0 /\ WarrantInit /\ AuditInit /\ RateIdle
    /\ LoaderInit /\ BootInit /\ GateInit /\ EvalInit /\ HostInit /\ ThreadInit

NextBoot == BootNext

SpecBoot == InitBoot /\ [][NextBoot]_vars

\* The gatekeeper over the policy engine.
InitGate == Init

NextGate == GateNext

SpecGate == InitGate /\ [][NextGate]_vars

\* Policy objects evaluated directly, on either build of the evaluator.
InitEval ==
    /\ GovInit /\ rpnBinOk \in BOOLEAN /\ rpnGe \in BOOLEAN /\ process = DaemonStart(rpnBinOk)
    /\ clock = 0 /\ WarrantInit /\ AuditInit /\ RateIdle
    /\ LoaderInit /\ KernelInit /\ GateInit /\ EvalInit /\ HostInit /\ ThreadInit

NextEval == EvalNext

\* The evaluator client alone, its process dying at any moment.
InitDaemon == Init

NextDaemon == DaemonCallNext

SpecDaemon == InitDaemon /\ [][NextDaemon]_vars

\* Two threads calling DAEMON.evaluate on a running evaluator.
InitPipe ==
    /\ GovInit /\ DaemonIdle /\ clock = 0 /\ WarrantInit /\ AuditInit /\ RateIdle
    /\ LoaderInit /\ KernelInit /\ GateInit /\ EvalInit /\ HostInit /\ PipeInit

NextPipe == PipeNext

SpecPipe == InitPipe /\ [][NextPipe]_vars

\* Two threads of verify_action callers in log_decision of one logger.
InitAppend ==
    /\ GovInit /\ DaemonIdle /\ clock = 0 /\ WarrantInit /\ AuditInit /\ RateIdle
    /\ LoaderInit /\ KernelInit /\ GateInit /\ EvalInit /\ HostInit /\ AppendInit

NextAppend == AppendNext

SpecAppend == InitAppend /\ [][NextAppend]_vars

\* Two threads in allowed() of one limiter.
InitBucket ==
    /\ GovInit /\ DaemonIdle /\ clock = 0 /\ WarrantInit /\ AuditInit /\ RateInit
    /\ LoaderInit /\ KernelInit /\ GateInit /\ EvalInit /\ HostInit /\ BucketInit

NextBucket == BucketNext

SpecBucket == InitBucket /\ [][NextBucket]_vars

\* Two threads of verify_action callers at the counter of one kernel.
InitNonce ==
    /\ GovInit /\ DaemonIdle /\ clock = 0 /\ WarrantInit /\ AuditInit /\ RateIdle
    /\ LoaderInit /\ KernelInit /\ GateInit /\ EvalInit /\ HostInit /\ NonceInit

NextNonce == NonceNext

SpecNonce == InitNonce /\ [][NextNonce]_vars

\* A logger, the store under it and restarts of the process.
InitRecover == InitWarrant

NextRecover == RecoverNext

SpecRecover == InitRecover /\ [][NextRecover]_vars

\* Agents running governed tools on the engine of governance.py.
InitTool == Init

NextTool == ToolNext

SpecTool == InitTool /\ [][NextTool]_vars

SpecEval == InitEval /\ [][NextEval]_vars


\* C30: Warrant.is_valid never raises: whatever the warrant holds (a
\* signature that is not hex or of the wrong length included) and whatever
\* string is supplied as the public key (a malformed one included), it
\* returns a boolean, false on any verification failure.
C30_IsValidNeverRaises ==
    wChecked.called => wChecked.raised = ""

(***************************************************************************)
(* Claims on the kernel                                                    *)
(***************************************************************************)
\* C4: CryptoGovernance.verify_action, for an action name that is not in
\* the ACTIONS registry, whatever the role mask and the context, denies
\* immediately: the warrant it returns has allowed = false, no policy
\* clause is evaluated and no audit entry is appended.
C4_UnknownActionDeniedAtOnce ==
    (kCall.called /\ kCall.outcome = "warrant" /\ kCall.action \notin DOMAIN Actions)
        => /\ ~kCall.warrant.allowed
           /\ ~kCall.evaluated
           /\ ~kCall.appended

\* What load_verified_policies does on the manifest __init__ read.
BootLoad == LoadVerifiedPolicies(kBoot.file, RootPub)

\* C11: secure boot.  When the verification of the manifest fails the
\* construction fails and there is no kernel (nothing past the keys is
\* set, no call is ever served); the logger, the limiter and the counter
\* are created only after the manifest has been verified; and the
\* policies of a constructed kernel are exactly those of the manifest it
\* verified, whatever happens to policies.json afterwards.
C11_SecureBoot ==
    /\ kBoot.pc = "failed" =>
          /\ kBoot.attrs \cap {"policies_def", "policies", "logger", "limiter", "nonce"} = {}
          /\ kCalls = 0 /\ ~kCall.called
    /\ kBoot.attrs \cap {"policies", "logger", "limiter", "nonce"} # {} =>
          /\ "policies_def" \in kBoot.attrs
          /\ BootLoad.raised = ""
          /\ kBoot.policies_def = BootLoad.policies
    /\ "policies" \in kBoot.attrs => kPolicies = KernelPolicies(BootLoad.policies)

\* A kernel that has served calls while policies.json no longer verifies.
C11_Witness ==
    /\ kBoot.pc = "up" /\ kCalls > 0
    /\ manifestFile # kBoot.file
    /\ LoadVerifiedPolicies(manifestFile, RootPub).raised = "SecurityError"

KernelDecision(call) == IF call.evaluated THEN call.proof.allowed ELSE FALSE

DenialReasons == {"RateLimitExceeded", "PolicyNotFound"}

\* C17: whenever CryptoGovernance.verify_action returns (rate-limit
\* rejection, policy not found, evaluated allow, evaluated deny) it returns a
\* Warrant signed with the constable key, valid under the constable public
\* key from its timestamp up to its expiry, whose allowed field is the
\* decision (False on the denial paths) and whose expiry is timestamp + 60.
C17_SignedWarrants ==
    (kCall.called /\ kCall.outcome = "warrant") =>
        /\ kCall.warrant.signature = WarrantCreate(ConstableKey, kCall.action, kCall.agent_id,
                                        kCall.warrant.allowed, kCall.at, kCall.nonce_before + 1,
                                        60 * TicksPerSecond).signature
        /\ WarrantIsValid(kCall.warrant, ConstablePub, kCall.at)
        /\ WarrantIsValid(kCall.warrant, ConstablePub, kCall.warrant.expiry)
        /\ kCall.warrant.allowed = KernelDecision(kCall)
        /\ kCall.reason \in DenialReasons => ~kCall.warrant.allowed
        /\ kCall.reason \notin DenialReasons => kCall.evaluated
        /\ kCall.warrant.timestamp = kCall.at
        /\ kCall.warrant.expiry = kCall.warrant.timestamp + 60 * TicksPerSecond

\* A call turned away by the rate limiter, holding its denied warrant.
C17_Witness ==
    /\ kCall.called /\ kCall.outcome = "warrant"
    /\ kCall.reason = "RateLimitExceeded"
    /\ ~kCall.evaluated
    /\ ~kCall.warrant.allowed
    /\ WarrantIsValid(kCall.warrant, ConstablePub, kCall.warrant.expiry)

\* C18: after a successful boot CryptoGovernance.verify_action never raises:
\* for every agent id, action, role mask and context_overrides (a non-numeric
\* epoch, an evaluator that cannot answer, an audit write that fails) the
\* call returns a Warrant, and the Warrant denies whenever a fault occurred.
C18_NeverRaises ==
    kCall.called =>
        /\ kCall.outcome = "warrant"
        /\ kCall.raised = ""
        /\ ~kCall.available => ~kCall.warrant.allowed

(***************************************************************************)
(* Claims on the manifest loader                                           *)
(***************************************************************************)
\* A load under the root key of a manifest that opens, parses, has both
\* fields and a hex signature.
LoadedWellFormed ==
    /\ loadResult.called /\ loadResult.key = RootPub
    /\ loadResult.file.exists /\ loadResult.file.parses
    /\ loadResult.file.has = {"signature", "policies"}
    /\ BytesFromHex(loadResult.file.signature).ok

\* The same policy names, each with the same definition, its clauses in
\* the same order (a policy is looked up by name; its clauses are evaluated
\* in order).
SamePolicies(a, b) ==
    /\ JKeys(a) = JKeys(b) /\ Len(a) = Len(b)
    /\ \A name \in JKeys(a) : JGet(a, name) = JGet(b, name)

\* C9: load_verified_policies returns the policies map only when the
\* signature verifies over the whole policies payload; if any part of the
\* payload differs from what was signed, the load fails with the security
\* error and returns no policy at all.
C9_AllOrNothing ==
    LoadedWellFormed =>
        IF SamePolicies(loadResult.file.policies, POLICIES)
        THEN loadResult.raised = "" => SamePolicies(loadResult.policies, POLICIES)
        ELSE loadResult.raised = "SecurityError" /\ loadResult.policies = <<>>

\* C10: every failure of load_verified_policies (the manifest cannot be
\* opened, is not JSON, lacks a field, has a non-hex signature, or the
\* signature does not match) raises SecurityError and nothing else.
C10_OnlySecurityError ==
    (loadResult.called /\ loadResult.raised # "") => loadResult.raised = "SecurityError"

(***************************************************************************)
(* Claims on the rate limiter                                              *)
(***************************************************************************)
AgentCalls(agent_id) == SelectSeq(rateLog, LAMBDA e : e.agent = agent_id)

SameInstant(h, n) == \A i \in 1..n : h[i].t = h[1].t

\* The first Capacity + 1 calls of an agent came at one instant.
Burst(h) == Len(h) > Capacity /\ SameInstant(h, Capacity + 1)

\* the ticks between the burst and the call after it
Waited(h) == h[Capacity + 2].t - h[1].t

BurstAnswers(h) ==
    /\ \A n \in 1..Min(Len(h), Capacity) : SameInstant(h, n) => h[n].ok
    /\ Burst(h) => ~h[Capacity + 1].ok

AfterWait(h) ==
    /\ (Burst(h) /\ Len(h) > Capacity + 1) =>
          (h[Capacity + 2].ok <=> Waited(h) * limiter.rate >= TicksPerSecond)
    /\ (/\ Burst(h) /\ Len(h) > Capacity + 2
        /\ h[Capacity + 3].t = h[Capacity + 2].t
        /\ Waited(h) * limiter.rate >= TicksPerSecond
        /\ Waited(h) * limiter.rate < 2 * TicksPerSecond) => ~h[Capacity + 3].ok

\* What does hold of the limiter: for a fresh agent, Capacity calls at one
\* instant are allowed and the next one at that instant is refused; the
\* call after a wait is allowed exactly when the elapsed time between the
\* two clock readings, times the rate, is at least one token, and when it
\* is less than two tokens the next immediate call is refused.
TokenBucketMeasured ==
    \A g \in WarrantAgents : BurstAnswers(AgentCalls(g)) /\ AfterWait(AgentCalls(g))

\* A wait of 1/rate seconds, as the clock can read it: the tick just
\* before or just after the instant when 1/rate is not a whole number of
\* ticks.
WaitedOneOverRate(h) ==
    \/ Waited(h) = TicksPerSecond \div limiter.rate
    \/ Waited(h) = (TicksPerSecond + limiter.rate - 1) \div limiter.rate

AfterOneOverRate(h) ==
    /\ (Burst(h) /\ Len(h) > Capacity + 1 /\ WaitedOneOverRate(h)) =>
          h[Capacity + 2].ok
    /\ (/\ Burst(h) /\ Len(h) > Capacity + 2 /\ WaitedOneOverRate(h)
        /\ h[Capacity + 3].t = h[Capacity + 2].t) => ~h[Capacity + 3].ok

\* C8: for a fresh agent, Capacity calls at one instant are allowed and the
\* next one is refused; after then waiting 1/rate seconds exactly one
\* further call is allowed and the next immediate call is refused.
C8_OneOverRate ==
    \A g \in WarrantAgents :
        BurstAnswers(AgentCalls(g)) /\ AfterOneOverRate(AgentCalls(g))

\* C31: after any sequence of allowed() calls for any agents at
\* non-decreasing clock values, every stored bucket has
\* 0 <= tokens <= capacity.
C31_BucketBounds ==
    \A g \in DOMAIN limiter.buckets :
        /\ limiter.buckets[g].tokens >= 0
        /\ limiter.buckets[g].tokens <= TokenUnits(limiter.capacity)
        /\ limiter.buckets[g].last <= clock

C31_Witness ==
    \E g \in DOMAIN limiter.buckets :
        /\ Len(AgentCalls(g)) >= 3
        /\ limiter.buckets[g].last > 0
        /\ limiter.buckets[g].tokens > 0
        /\ \E i \in 1..Len(AgentCalls(g)) : ~AgentCalls(g)[i].ok

\* one allowed() call has returned: its agent and its answer
RateCalled == Len(rateLog') = Len(rateLog) + 1

CalledAgent == rateLog'[Len(rateLog')].agent

CalledOk == rateLog'[Len(rateLog')].ok

\* the tokens and the time the call found for its agent
FoundTokens(g) ==
    IF g \in DOMAIN limiter.buckets THEN limiter.buckets[g].tokens
    ELSE TokenUnits(limiter.capacity)

FoundLast(g) == IF g \in DOMAIN limiter.buckets THEN limiter.buckets[g].last ELSE clock

\* the refilled token count of the call
RefilledCount(g) ==
    Min(TokenUnits(limiter.capacity), FoundTokens(g) + (clock - FoundLast(g)) * limiter.rate)

\* C32: when the refilled token count is below 1, allowed() returns false
\* and stores exactly the refilled count, not decremented, with the
\* current time, so the fractions accrued over refused checks are kept; an
\* admitted check stores the refilled count minus exactly 1.
C32_RefusalConsumesNothing ==
    [][RateCalled =>
          /\ CalledOk <=> RefilledCount(CalledAgent) >= TokenUnits(1)
          /\ limiter'.buckets[CalledAgent].last = clock
          /\ limiter'.buckets[CalledAgent].tokens
                = IF CalledOk THEN RefilledCount(CalledAgent) - TokenUnits(1)
                  ELSE RefilledCount(CalledAgent)]_vars

\* a refused check that left a fraction of a token, and the next check of
\* the agent admitted before a whole token could accrue since the refusal
C32_Witness ==
    \E g \in WarrantAgents :
        \E i \in 1..Len(AgentCalls(g)) :
            /\ i > 1
            /\ ~AgentCalls(g)[i - 1].ok
            /\ AgentCalls(g)[i].ok
            /\ (AgentCalls(g)[i].t - AgentCalls(g)[i - 1].t) * limiter.rate < TokenUnits(1)

\* C33: allowed(a) reads and writes only the bucket of agent a: the bucket
\* of every other agent is unchanged, the answer is the one a's own bucket
\* gives, and an agent's first request is admitted however exhausted the
\* other buckets are.
C33_BucketsIndependent ==
    [][RateCalled =>
          /\ \A b \in WarrantAgents \ {CalledAgent} :
                /\ b \in DOMAIN limiter'.buckets <=> b \in DOMAIN limiter.buckets
                /\ b \in DOMAIN limiter.buckets
                      => limiter'.buckets[b] = limiter.buckets[b]
          /\ CalledOk <=> RefilledCount(CalledAgent) >= TokenUnits(1)
          /\ CalledAgent \notin DOMAIN limiter.buckets => CalledOk]_vars

\* one agent's bucket is exhausted and the other agent's first request,
\* made after that, is admitted
C33_Witness ==
    \E i \in 1..Len(rateLog), j \in 1..Len(rateLog) :
        /\ i < j
        /\ ~rateLog[i].ok
        /\ rateLog[j].agent # rateLog[i].agent
        /\ rateLog[j].ok
        /\ rateLog[j].t = rateLog[i].t
        /\ \A k \in 1..(j - 1) : rateLog[k].agent = rateLog[i].agent

(***************************************************************************)
(* Claims on the audit chain                                               *)
(***************************************************************************)
IsZeros64(s) == Len(s) = 64 /\ \A i \in 1..64 : Ch(s, i) = "0"

\* what an auditor recomputes from a line of the file: the entry without
\* curr_hash, keys sorted, hashed
Recomputed(line) ==
    Sha256Hex(sha256Seen, JsonDumps(JObj(JWithout(line, "curr_hash")), TRUE))

\* C7: after any number of log_decision calls on one MerkleLogger from an
\* empty store, every committed entry's curr_hash is the hash of its
\* canonical serialization without curr_hash, every entry after the first
\* has the previous entry's curr_hash as prev_hash, and the first entry's
\* prev_hash is 64 zero characters.
C7_ChainIntegrity ==
    \A i \in 1..Len(chainFile) :
        /\ JGet(chainFile[i], "curr_hash").str = Recomputed(chainFile[i])
        /\ i > 1 => JGet(chainFile[i], "prev_hash").str
                        = JGet(chainFile[i - 1], "curr_hash").str
        /\ i = 1 => IsZeros64(JGet(chainFile[i], "prev_hash").str)

C7_Witness ==
    /\ Len(chainFile) = 2
    /\ JGet(chainFile[1], "policy").str = "EpochGov"
    /\ JGet(chainFile[2], "decision").bool = FALSE
    /\ JGet(chainFile[2], "ts").num > JGet(chainFile[1], "ts").num
    /\ JGet(chainFile[2], "prev_hash").str = JGet(chainFile[1], "curr_hash").str
    /\ last_hash = JGet(chainFile[2], "curr_hash").str

\* C34: constructing a MerkleLogger on a store of N >= 1 committed entries
\* sets last_hash to the curr_hash of the last entry, so that appends after
\* a restart continue the chain; on an empty, a missing or an unreadable
\* store last_hash is the genesis hash of 64 zeros.
C34_CursorRecovered ==
    [][store'.restarts = store.restarts + 1 =>
          /\ store'.up
          /\ last_hash' = IF chainFile = <<>> \/ ~store.readable THEN GenesisHash
                          ELSE JGet(chainFile[Len(chainFile)], "curr_hash").str]_vars

(***************************************************************************)
(* Claims on warrants                                                      *)
(***************************************************************************)
WarrantSix(w) ==
    WarrantFields(w.action, w.agent_id, w.allowed, w.timestamp, w.nonce, w.expiry)

SameSignatureBytes(a, b) ==
    /\ BytesFromHex(a).ok
    /\ BytesFromHex(a).bytes = BytesFromHex(b).bytes

CheckedByConstable == wChecked.called /\ wChecked.key = ConstablePub

\* What does hold of is_valid under the constable's verify key: it is true
\* exactly when the six signed fields are those of the warrant as created,
\* the signature text decodes to the bytes that were issued, and the time
\* is not past expiry.
WarrantTamperEvident ==
    CheckedByConstable =>
        (wChecked.result <=>
            /\ WarrantSix(wChecked.warrant) = WarrantSix(wIssue.warrant)
            /\ SameSignatureBytes(wChecked.warrant.signature, wIssue.warrant.signature)
            /\ wChecked.at <= wChecked.warrant.expiry)

\* C5: a warrant from Warrant.create, presented unchanged under the
\* matching verify key while now <= expiry, is valid; after a change of the
\* signature or of one of the six signed fields, is_valid returns false.
C5_RoundTripAndTamper ==
    CheckedByConstable =>
        IF wChecked.warrant = wIssue.warrant
        THEN wChecked.at <= wChecked.warrant.expiry => wChecked.result
        ELSE ~wChecked.result

\* C6: a created warrant has expiry = timestamp + ttl; is_valid is false
\* whenever the time is greater than expiry, whatever the signature; and
\* once is_valid has been seen false on an expired warrant, that warrant is
\* not valid at any later time.
C6_ExpiryHonoured ==
    /\ wIssue.issued =>
          wIssue.warrant.expiry = wIssue.warrant.timestamp + wIssue.ttl
    /\ (wChecked.called /\ wChecked.at > wChecked.warrant.expiry) => ~wChecked.result
    /\ wExpiredSeen.seen =>
          /\ \A k \in {ConstablePub, RootPub} : ~WarrantIsValid(wHeld, k, clock)
          /\ wChecked.called => ~wChecked.result

C6_Witness ==
    /\ wExpiredSeen.seen
    /\ CheckedByConstable
    /\ wChecked.warrant = wIssue.warrant
    /\ wIssue.ttl = 1
    /\ wChecked.at > wExpiredSeen.at
    /\ ~wChecked.result

(***************************************************************************)
(* Claims on the policy engine                                             *)
(***************************************************************************)
HasAdminBit(r) == (r \div 4) % 2 = 1

\* The decimal integers a context value str(n) can stand for here.
CtxInts == (0 - 1)..1000

CtxRoleIs(ctx, admin) ==
    \E r \in CtxInts : ctx.role_mask = ToString(r) /\ HasAdminBit(r) = admin

\* A call that the StandardAccess policy decided with the evaluator
\* answering (its process running, or restarted by the call).
StandardDecided ==
    /\ govCall.called /\ govCall.evaluated
    /\ govCall.policy = "StandardAccess"
    /\ govCall.available

\* C1: under the StandardAccess policy, every role mask with the admin bit
\* (4) set is allowed whatever the action: the is_admin clause is true in
\* the trace and allowed = true.
C1_AdminAlwaysAllowed ==
    (StandardDecided /\ CtxRoleIs(govCall.context, TRUE))
        => /\ TraceGet(govCall.proof.trace, "is_admin")
           /\ govCall.proof.allowed

C1_Witness ==
    /\ StandardDecided /\ CtxRoleIs(govCall.context, TRUE)
    /\ govCall.action_name = "DELETE_FILE"
    /\ govCall.proof.allowed
    /\ ~TraceGet(govCall.proof.trace, "is_safe_action")

CtxActionIn(ctx, ids) == \E n \in ids : ctx.action_id = ToString(n)

\* C2: under the StandardAccess policy and a role mask without the admin
\* bit, an action id in 100..199 is allowed with is_safe_action true and
\* is_admin false, and an action id >= 200 is denied with both clauses
\* false.
C2_SafeRangeForNonAdmin ==
    (StandardDecided /\ CtxRoleIs(govCall.context, FALSE))
        => /\ CtxActionIn(govCall.context, 100..199)
                => /\ govCall.proof.allowed
                   /\ TraceGet(govCall.proof.trace, "is_safe_action")
                   /\ ~TraceGet(govCall.proof.trace, "is_admin")
           /\ CtxActionIn(govCall.context, 200..1000)
                => /\ ~govCall.proof.allowed
                   /\ ~TraceGet(govCall.proof.trace, "is_safe_action")
                   /\ ~TraceGet(govCall.proof.trace, "is_admin")

C2_Witness ==
    /\ StandardDecided /\ CtxRoleIs(govCall.context, FALSE)
    /\ govCall.context.action_id = "199"
    /\ govCall.proof.allowed

EpochDecided ==
    /\ govCall.called /\ govCall.evaluated
    /\ govCall.policy = "EpochState"
    /\ govCall.available
    /\ "epoch" \in DOMAIN govCall.context

CtxIs(role_mask, epoch) ==
    /\ govCall.context.role_mask = ToString(role_mask)
    /\ govCall.context.epoch = ToString(epoch)

\* C12: the epoch scenario.  With the epoch policy evaluated, the guest
\* role at epoch 0 has is_normal_mode true and is allowed, the guest role at
\* epoch 1 is denied, and the admin role at epoch 1 has is_admin true and is
\* allowed.
C12_EpochScenario ==
    EpochDecided =>
        /\ CtxIs(1, 0) => /\ TraceGet(govCall.proof.trace, "is_normal_mode")
                          /\ govCall.proof.allowed
        /\ CtxIs(1, 1) => ~govCall.proof.allowed
        /\ CtxIs(ROLE_ADMIN, 1) => /\ TraceGet(govCall.proof.trace, "is_admin")
                                   /\ govCall.proof.allowed


\* C13: with the Epoch policy active in governance.verify_action, for every
\* role mask and every epoch in {0, 1} the trace has is_normal_mode =
\* (epoch = 0), is_emergency_mode = (epoch = 1) and is_admin = (the role
\* mask has bit 4).
C13_EpochTrace ==
    (EpochDecided /\ govCall.context.epoch \in {"0", "1"})
        => /\ TraceGet(govCall.proof.trace, "is_normal_mode")
                <=> govCall.context.epoch = "0"
           /\ TraceGet(govCall.proof.trace, "is_emergency_mode")
                <=> govCall.context.epoch = "1"
           /\ TraceGet(govCall.proof.trace, "is_admin")
                <=> CtxRoleIs(govCall.context, TRUE)

\* The guest at epoch 1: not normal, emergency, not admin.
C13_Witness ==
    /\ EpochDecided /\ CtxIs(1, 1)
    /\ govCall.proof.trace = <<[name |-> "is_normal_mode", value |-> FALSE],
                               [name |-> "is_emergency_mode", value |-> TRUE],
                               [name |-> "is_admin", value |-> FALSE]>>


(***************************************************************************)
(* Claims on the gatekeeper                                                *)
(***************************************************************************)
\* What entry h of the history shows of a check made under the Epoch
\* policy with the evaluator answering: the three flags, the gate, the
\* status and the recorded proof.
GateEntryOk(h) ==
    (h.proof.policy_name = "EpochState" /\ h.available) =>
        /\ h.printed.normal = (h.epoch = 0)
        /\ h.printed.emergency = (h.epoch = 1)
        /\ h.printed.admin = HasAdminBit(h.role)
        /\ h.printed.approved = (h.epoch = 0 \/ (h.epoch = 1 /\ HasAdminBit(h.role)))
        /\ h.proof.allowed = h.printed.approved
        /\ h.status = (IF h.printed.approved THEN "APPROVED" ELSE "DENIED")

Printed(approved, normal, emergency, admin) ==
    [approved |-> approved, normal |-> normal, emergency |-> emergency, admin |-> admin]

\* The run is through and the evaluator answered its three checks.
RunAnswered ==
    /\ simPc = "done"
    /\ \A i \in 1..3 : gHistory[i].available

\* C14: Gatekeeper.check_transition with the Epoch policy approves a
\* transition iff is_normal_mode or (is_emergency_mode and is_admin); across
\* the run the guest at epoch 0 is APPROVED (Normal=True, Emergency=False,
\* Admin=False), the guest at epoch 1 is DENIED (Normal=False,
\* Emergency=True, Admin=False), the admin at epoch 1 is APPROVED
\* (Normal=False, Emergency=True, Admin=True), and the allowed of the
\* recorded proof is the gate's result.
C14_GateDecision ==
    /\ \A i \in 1..Len(gHistory) : GateEntryOk(gHistory[i])
    /\ RunAnswered =>
          /\ gHistory[1].printed = Printed(TRUE, TRUE, FALSE, FALSE)
          /\ gHistory[2].printed = Printed(FALSE, FALSE, TRUE, FALSE)
          /\ gHistory[3].printed = Printed(TRUE, FALSE, TRUE, TRUE)

\* The run is through, its guest was denied at epoch 1, and a later check
\* of another agent was made.
C14_Witness ==
    /\ RunAnswered
    /\ gHistory[2].status = "DENIED" /\ ~gHistory[2].proof.allowed
    /\ Len(gHistory) = 4 /\ gHistory[4].available /\ gHistory[4].role = ROLE_USER


\* C27: in a sequential run of one kernel the k-th issued warrant has nonce
\* k, starting at 1, so the nonces of successive warrants are strictly
\* increasing, on every path that issues a warrant, the rate-limit and the
\* policy-not-found denials included; a call left by an exception issues
\* none and leaves the counter alone.
C27_NonceMonotonic ==
    /\ \A k \in 1..Len(kIssued) : kIssued[k] = k
    /\ kNonce = Len(kIssued)
    /\ (kCall.called /\ kCall.outcome = "warrant") =>
          /\ kCall.warrant.nonce = kCall.nonce_before + 1
          /\ kCall.warrant.nonce = Len(kIssued)
    /\ (kCall.called /\ kCall.outcome = "raised") => kNonce = kCall.nonce_before

C27_Witness ==
    /\ kIssued = <<1, 2>>
    /\ kCall.called
    /\ kCall.reason = "RateLimitExceeded"
    /\ kCall.warrant.nonce = 2

C27_WitnessNotFound ==
    /\ kIssued = <<1, 2>>
    /\ kCall.called
    /\ kCall.reason = "PolicyNotFound"
    /\ kCall.warrant.nonce = 2

\* C28: with concurrent callers of verify_action on one kernel no two
\* issued warrants carry the same nonce: the increment of the counter and
\* its use in the warrant are not separated by another caller's increment.
C28_NonceUnique ==
    /\ \A i \in 1..Len(kIssued), j \in 1..Len(kIssued) :
          kIssued[i] = kIssued[j] => i = j
    /\ \A t \in Threads, u \in Threads :
          (thr[t].pc = "issued" /\ thr[u].pc = "issued"
              /\ thr[t].warrant.nonce = thr[u].warrant.nonce) => t = u

\* The attributes Warrant.__init__ sets; a tag would be one more.
WarrantTagged(w, tag) == \E attr \in DOMAIN w \ WarrantAttrs : w[attr] = tag

\* a verify_action call that the limiter refuses
RateLimitedCall == ~kCall.called /\ kCall'.called /\ kCall'.reason = "RateLimitExceeded"

\* What the rate-limit rejection leaves alone and what it moves.
RateLimitedFrame ==
    /\ kCall'.outcome = "warrant"
    /\ ~kCall'.warrant.allowed
    /\ kCall'.trips = 0
    /\ ~kCall'.evaluated
    /\ process' = process
    /\ ~kCall'.appended
    /\ chainFile' = chainFile
    /\ last_hash' = last_hash
    /\ kNonce' = kNonce + 1
    /\ kCall'.warrant.nonce = kNonce + 1

\* C29: when RateLimiter.allowed(agent) is false, verify_action returns a
\* denied warrant tagged RateLimitExceeded, makes no evaluator round trip
\* and no policy evaluation, leaves the audit file and last_hash unchanged
\* and advances the nonce by exactly 1.
C29_RateLimitRejection ==
    [][RateLimitedCall =>
          (RateLimitedFrame /\ WarrantTagged(kCall'.warrant, "RateLimitExceeded"))]_vars

\* a verify_action call has been made
KernelCalled == ~kCall.called /\ kCall'.called

\* the entry the call left at the end of the audit file
LastEntry == chainFile'[Len(chainFile')]

\* the entry appended for the proof is the one the warrant attests
EntryMatchesWarrant ==
    /\ kCall'.outcome = "warrant"
    /\ Len(chainFile') = Len(chainFile) + 1
    /\ JGet(LastEntry, "agent").str = kCall'.warrant.agent_id
    /\ JGet(LastEntry, "policy").str = kCall'.policy_name
    /\ JGet(LastEntry, "decision").bool = kCall'.warrant.allowed
    /\ JGet(LastEntry, "ts").num <= kCall'.warrant.timestamp

\* C35: for every request that reaches policy evaluation, verify_action
\* appends exactly one audit entry before the warrant is created and
\* returned, the entry's agent, policy name and decision being the
\* warrant's agent_id, the selected policy and the warrant's allowed; a
\* request that is not evaluated appends none, so that the audit entries
\* are as many as the evaluated requests.
C35_AuditBeforeWarrant ==
    [][KernelCalled =>
          IF kCall'.evaluated THEN EntryMatchesWarrant ELSE chainFile' = chainFile]_vars

\* a call that the limiter let through
PassedLimiter == kCall.called /\ kCall.reason # "RateLimitExceeded"

\* context_overrides has an "epoch" whose integer value is > 0
EpochPositive(ov) ==
    /\ "epoch" \in DOMAIN ov
    /\ PyIntOf(PyStr(ov.epoch)).ok
    /\ PyIntOf(PyStr(ov.epoch)).int > 0

SelectedByRule(ov) == IF EpochPositive(ov) THEN "EpochGov" ELSE "StandardAccess"

\* C36: verify_action evaluates the policy named EpochGov exactly when
\* context_overrides has an "epoch" whose integer value is > 0, and the
\* default StandardAccess policy otherwise (epoch absent, 0 or negative
\* included); no other policy is ever selected.
C36_PolicySelection ==
    PassedLimiter =>
        /\ kCall.policy_name = SelectedByRule(kCall.overrides)
        /\ kCall.evaluated <=> SelectedByRule(kCall.overrides) \in DOMAIN kPolicies
        /\ kCall.evaluated =>
              kCall.proof.policy_name = kPolicies[SelectedByRule(kCall.overrides)].name

\* C38: after verify_action has built the context, context[k] is
\* str(overrides[k]) for every override key k, role_mask and action_id
\* included, and the arguments stand only where there is no override: the
\* clauses see the override values.
C38_OverridesWin ==
    PassedLimiter =>
        /\ \A k \in DOMAIN kCall.overrides :
              kCall.context[k] = PyStr(kCall.overrides[k])
        /\ "role_mask" \notin DOMAIN kCall.overrides
              => kCall.context["role_mask"] = ToString(kCall.role_mask)
        /\ "action_id" \notin DOMAIN kCall.overrides
              => kCall.context["action_id"] = ToString(ActionMap(kCall.action))
        /\ (kCall.evaluated /\ kCall.available /\ kCall.policy_name = "StandardAccess")
              => (TraceGet(kCall.proof.trace, "is_admin")
                    <=> kCall.context["role_mask"] = ToString(ROLE_ADMIN))

\* a guest's request with role_mask overridden to the admin mask is
\* decided as an admin's
C38_Witness ==
    /\ kCall.called
    /\ kCall.role_mask = 1
    /\ kCall.overrides = [role_mask |-> PyInt(ROLE_ADMIN)]
    /\ kCall.evaluated
    /\ kCall.context["role_mask"] = "4"
    /\ TraceGet(kCall.proof.trace, "is_admin")
    /\ kCall.outcome = "warrant"
    /\ kCall.warrant.allowed

C38_WitnessAction ==
    /\ kCall.called
    /\ kCall.action = "DELETE_DB"
    /\ "action_id" \in DOMAIN kCall.overrides
    /\ kCall.evaluated
    /\ kCall.context["action_id"] = "101"

\* the audit write of the call failed: log_decision left by OSError
WriteFailed == kCall'.raised = "OSError"

\* the call appended one entry, and it names the last committed entry
ChainsFromCommitted ==
    /\ Len(chainFile') = Len(chainFile) + 1
    /\ JGet(LastEntry, "prev_hash").str = GetLastHash(chainFile)

\* C39: a verify_action call whose audit write fails leaves the audit file
\* and last_hash as they were; after every call last_hash is the curr_hash
\* of the last entry in the file (the genesis hash on an empty file), and a
\* call that appends writes one entry whose prev_hash is the curr_hash of
\* the last entry that was in the file before it.
C39_FailedWriteKeepsCursor ==
    [][KernelCalled =>
          /\ WriteFailed => chainFile' = chainFile /\ last_hash' = last_hash
          /\ last_hash' = GetLastHash(chainFile')
          /\ chainFile' # chainFile => ChainsFromCommitted]_vars

\* an audit write has failed on a file that holds a committed entry, and
\* last_hash is still that entry's curr_hash
C39_Witness ==
    /\ kCall.called /\ kCall.raised = "OSError"
    /\ kCall.chain_before > 0 /\ Len(chainFile) = kCall.chain_before
    /\ last_hash = JGet(chainFile[Len(chainFile)], "curr_hash").str

(***************************************************************************)
(* Claims on the evaluator client                                          *)
(***************************************************************************)
\* C22: a single DaemonController.evaluate call starts the evaluator process
\* at most once, and returns "0" when that start fails or the write hits a
\* broken pipe.
C22_RestartOnce ==
    dCall.called =>
        /\ dCall.starts <= 1
        /\ (dCall.process # "running" /\ ~dCall.binOk) => dCall.out = "0"
        /\ (dCall.fate = "pipe" /\ (dCall.process = "running" \/ dCall.binOk))
              => dCall.out = "0"

\* C37: Policy._run_kernel returns true exactly when the response line,
\* stripped, is "1": an empty line at the end of the stream, diagnostic
\* text and every other numeric result ("2", "-1") give false.
C37_OnlyOneIsTrue ==
    (dCall.called /\ dCall.by = "_run_kernel") =>
        /\ dCall.verdict <=> dCall.out = "1"
        /\ dCall.out \in {"", "0", "2", "5", "6", "-1", RpnErrorText} => ~dCall.verdict

C37_Witness ==
    /\ dCall.called
    /\ dCall.by = "_run_kernel"
    /\ dCall.fate = "answers"
    /\ dCall.out = "2"
    /\ ~dCall.verdict

\* C24: with concurrent callers the write-request / read-response section
\* of DaemonController.evaluate is never executed by two callers at once,
\* and every caller receives the response line of its own request.
C24_RoundTripsExclusive ==
    /\ \A t \in Threads, u \in Threads :
          (thr[t].pc = "written" /\ thr[u].pc = "written") => t = u
    /\ \A t \in Threads :
          thr[t].pc = "done" => thr[t].out = RpnRespond(Frame(thr[t].tokens))

\* C25: with concurrent verify_action callers on one kernel, the read of
\* last_hash, the build of the entry, the write and the advance of
\* last_hash in log_decision are one critical section: no two committed
\* entries share a prev_hash and the file, in its order, is a valid hash
\* chain.
C25_AppendAtomic ==
    /\ \A i \in 1..Len(chainFile), j \in 1..Len(chainFile) :
          JGet(chainFile[i], "prev_hash").str = JGet(chainFile[j], "prev_hash").str
              => i = j
    /\ \A i \in 1..Len(chainFile) :
          /\ JGet(chainFile[i], "curr_hash").str = Recomputed(chainFile[i])
          /\ i > 1 => JGet(chainFile[i], "prev_hash").str
                          = JGet(chainFile[i - 1], "curr_hash").str
          /\ i = 1 => IsZeros64(JGet(chainFile[i], "prev_hash").str)

(***************************************************************************)
(* Claims on concurrent callers of the limiter                             *)
(***************************************************************************)
Admitted(h) == Len(SelectSeq(h, LAMBDA e : e.ok))

\* the earliest clock reading among the calls of h
FirstCall(h) == CHOOSE m \in {h[i].t : i \in 1..Len(h)} : \A i \in 1..Len(h) : m <= h[i].t

\* C26: with concurrent allowed() calls for one agent id the
\* read-refill-consume-write of the bucket is indivisible: no token is
\* consumed twice, and the calls admitted for the agent never exceed the
\* initial capacity plus the rate times the time elapsed since its first
\* call.
C26_BucketAtomic ==
    \A g \in WarrantAgents :
        AgentCalls(g) # <<>> =>
            TokenUnits(Admitted(AgentCalls(g)))
                <= TokenUnits(Capacity)
                     + limiter.rate * (clock - FirstCall(AgentCalls(g)))

(***************************************************************************)
(* Claims on the escalation policies and on the clause loop                *)
(***************************************************************************)
KillSwitchPolicies == {"SOCMatrix", "ConstitutionalIR"}

\* C16: for the SOCMatrix and ConstitutionalIR policies, whenever the
\* kill_switch clause is true in the trace of an evaluation, the decision is
\* allowed = false, whatever the other clauses and the signature flags are.
C16_KillSwitch ==
    (/\ evalCall.called
     /\ evalCall.policy.name \in KillSwitchPolicies
     /\ TraceGet(evalCall.proof.trace, "kill_switch"))
        => ~evalCall.proof.allowed

\* An evaluation of SOCMatrix in which the kill switch is on while the
\* high-risk tier, with both signature flags set, is met.
C16_Witness ==
    /\ evalCall.called
    /\ evalCall.policy.name = "SOCMatrix"
    /\ evalCall.context.investigator_sig = "1"
    /\ evalCall.context.human_sig = "1"
    /\ TraceGet(evalCall.proof.trace, "kill_switch")
    /\ TraceGet(evalCall.proof.trace, "high_risk")
    /\ ~evalCall.proof.allowed


\* The clause loop of the held call as it stands before clause k.
EvalBefore(call, k) ==
    EvalClauses(SubSeq(call.policy.clauses, 1, k - 1), 1, call.context, <<>>,
                call.process, call.binOk, 0)

ClauseFormat(call, k) == Format(call.policy.clauses[k].template, EvalBefore(call, k).ctx)

\* The evaluator's answer to clause k of the held call.
ClauseAnswer(call, k) ==
    DaemonEvaluate(KernelArgs(ClauseFormat(call, k).s), EvalBefore(call, k).process,
                   call.binOk)

\* Clause k fails: its template cannot be formatted (a missing variable, a
\* malformed template), the evaluator cannot be reached, or it answers
\* with its diagnostic.
ClauseFails(call, k) ==
    \/ ~ClauseFormat(call, k).ok
    \/ ClauseAnswer(call, k).trips = 0
    \/ ClauseAnswer(call, k).out = RpnErrorText

ClauseIndex(call) == 1..Len(call.policy.clauses)

\* C19: a clause that fails for any reason (missing context variable,
\* malformed template, evaluator error) is recorded as False in the trace
\* and as "0" in the context; every later clause is still evaluated, on the
\* context the loop has built by then; the trace of the returned proof has
\* exactly one entry per declared clause.
C19_ClauseFailuresIsolated ==
    evalCall.called =>
        /\ Len(evalCall.proof.trace) = Len(evalCall.policy.clauses)
        /\ \A k \in ClauseIndex(evalCall) :
            /\ evalCall.proof.trace[k].name = evalCall.policy.clauses[k].name
            /\ ClauseFails(evalCall, k) =>
                  /\ ~evalCall.proof.trace[k].value
                  /\ EvalBefore(evalCall, k + 1).ctx[evalCall.policy.clauses[k].name] = "0"
            /\ ~ClauseFails(evalCall, k) =>
                  evalCall.proof.trace[k].value = (ClauseAnswer(evalCall, k).out = "1")

\* A probe evaluation with the evaluator answering: the clauses with a
\* missing variable, a malformed template and a division by zero are False,
\* and the clauses after them are evaluated and True.
C19_Witness ==
    /\ evalCall.called
    /\ evalCall.policy.name = "Probe"
    /\ ~TraceGet(evalCall.proof.trace, "absent")
    /\ ~TraceGet(evalCall.proof.trace, "broken")
    /\ ~TraceGet(evalCall.proof.trace, "faulty")
    /\ evalCall.ctx["faulty"] = "0"
    /\ TraceGet(evalCall.proof.trace, "late")
    /\ TraceGet(evalCall.proof.trace, "echo")
    /\ Len(evalCall.proof.trace) = 7

\* The text sub occurs in s.
Occurs(s, sub) ==
    \E i \in 1..(Len(s) - Len(sub) + 1) : SubSeq(s, i, i + Len(sub) - 1) = sub

\* The template of clause k names clause j in braces.
RefersTo(call, k, j) ==
    Occurs(call.policy.clauses[k].template, "{" \o call.policy.clauses[j].name \o "}")

\* Before clause k is substituted the context holds, under the name of
\* every earlier clause, "1" or "0" as the trace records it.
EarlierFedBack(call, k) ==
    \A c \in 1..(k - 1) :
        /\ call.policy.clauses[c].name \in DOMAIN EvalBefore(call, k).ctx
        /\ EvalBefore(call, k).ctx[call.policy.clauses[c].name]
              = BoolStr(call.proof.trace[c].value)

TraceInOrder(call) ==
    /\ Len(call.proof.trace) = Len(call.policy.clauses)
    /\ \A k \in ClauseIndex(call) : call.proof.trace[k].name = call.policy.clauses[k].name

\* Under the name of clause k and of every later clause the context before
\* clause k holds what the caller put there, or nothing.
LaterUntouched(call, k) ==
    \A j \in k..Len(call.policy.clauses) :
        IF call.policy.clauses[j].name \in DOMAIN call.context
        THEN /\ call.policy.clauses[j].name \in DOMAIN EvalBefore(call, k).ctx
             /\ EvalBefore(call, k).ctx[call.policy.clauses[j].name]
                   = call.context[call.policy.clauses[j].name]
        ELSE call.policy.clauses[j].name \notin DOMAIN EvalBefore(call, k).ctx

\* C20 as stated: clauses are evaluated in declaration order with the
\* results of all earlier clauses fed back over any caller-supplied value,
\* and a clause that references a later clause is False.
C20_AsStated ==
    evalCall.called =>
        /\ TraceInOrder(evalCall)
        /\ \A k \in ClauseIndex(evalCall) :
            /\ EarlierFedBack(evalCall, k)
            /\ \A j \in (k + 1)..Len(evalCall.policy.clauses) :
                  RefersTo(evalCall, k, j) => ~evalCall.proof.trace[k].value

\* C20: clauses are evaluated in declaration order; before clause k is
\* substituted the context holds "1" or "0" as in the trace under the name
\* of every earlier clause, whatever the caller supplied under that name,
\* and under the name of every later clause only what the caller supplied;
\* a clause that references a later clause whose name the caller's context
\* does not hold is False.
C20_OrderedFeedback ==
    evalCall.called =>
        /\ TraceInOrder(evalCall)
        /\ \A k \in ClauseIndex(evalCall) :
            /\ EarlierFedBack(evalCall, k)
            /\ LaterUntouched(evalCall, k)
            /\ \A j \in (k + 1)..Len(evalCall.policy.clauses) :
                  (/\ RefersTo(evalCall, k, j)
                   /\ evalCall.policy.clauses[j].name \notin DOMAIN evalCall.context)
                      => ~evalCall.proof.trace[k].value

\* A probe evaluation whose caller supplied "1" under the name of a clause
\* that then fails: the clause reading it afterwards sees "0"; the clause
\* referencing the later clause is False and the later clause itself True.
C20_Witness ==
    /\ evalCall.called
    /\ evalCall.policy.name = "Probe"
    /\ "faulty" \in DOMAIN evalCall.context /\ evalCall.context["faulty"] = "1"
    /\ "late" \notin DOMAIN evalCall.context
    /\ ~TraceGet(evalCall.proof.trace, "early")
    /\ TraceGet(evalCall.proof.trace, "late")
    /\ TraceGet(evalCall.proof.trace, "echo")
    /\ ~TraceGet(evalCall.proof.trace, "both")


\* The evaluator's verdict on a substituted combination template: False
\* when the template could not be substituted.
TemplateVerdict(call, f) ==
    /\ f.ok
    /\ DaemonEvaluate(KernelArgs(f.s),
                      EvalBefore(call, Len(call.policy.clauses) + 1).process,
                      call.binOk).out = "1"

\* C21: the decision is the logical AND of all trace values when the
\* combination is "AND", their logical OR when it is "OR", and otherwise
\* the evaluator's result on the combination template with every clause
\* name replaced by its "1"/"0" trace value, False when the template cannot
\* be substituted or evaluated.
C21_Combination ==
    evalCall.called =>
        evalCall.proof.allowed =
            (IF evalCall.policy.combination = "AND"
             THEN \A k \in ClauseIndex(evalCall) : evalCall.proof.trace[k].value
             ELSE IF evalCall.policy.combination = "OR"
             THEN \E k \in ClauseIndex(evalCall) : evalCall.proof.trace[k].value
             ELSE TemplateVerdict(evalCall,
                    Format(evalCall.policy.combination,
                           [n \in {evalCall.policy.clauses[k].name : k \in ClauseIndex(evalCall)}
                               |-> BoolStr(TraceGet(evalCall.proof.trace, n))])))

\* A probe evaluation with mixed clause results that the combination
\* template turns into an allow.
C21_Witness ==
    /\ evalCall.called
    /\ evalCall.policy.combination \notin {"AND", "OR"}
    /\ evalCall.policy.name = "Probe"
    /\ TraceGet(evalCall.proof.trace, "echo")
    /\ ~TraceGet(evalCall.proof.trace, "early")
    /\ evalCall.proof.allowed


\* The evaluator of the held call could not be reached: its process was
\* not running and could not be started.
Unreachable(call) == call.process # "running" /\ ~call.binOk

\* C23: while the evaluator process cannot be started every clause is False
\* without a round trip and the decision of Policy.evaluate is allowed =
\* False; when the process runs, or a start succeeds, the call is evaluated
\* as on an evaluator that never stopped.
C23_UnavailableDenies ==
    evalCall.called =>
        /\ Unreachable(evalCall) =>
              /\ evalCall.trips = 0
              /\ \A k \in ClauseIndex(evalCall) : ~evalCall.proof.trace[k].value
              /\ ~evalCall.proof.allowed
        /\ ~Unreachable(evalCall) =>
              evalCall.proof
                 = PolicyEvaluate(evalCall.policy, evalCall.context, "running", TRUE).proof

\* An evaluation that an answering evaluator allows, made while the process
\* is gone and the binary cannot be started.
C23_Witness ==
    /\ evalCall.called
    /\ Unreachable(evalCall)
    /\ evalCall.policy.name = "Pair"
    /\ evalCall.context = [role_mask |-> "4"]
    /\ PolicyEvaluate(evalCall.policy, evalCall.context, "running", TRUE).proof.allowed
    /\ ~evalCall.proof.allowed


(***************************************************************************)
(* Claims on the governed tool                                             *)
(***************************************************************************)
\* the governance check of a run, from what verify_action returned
ToolCheckAllows ==
    IF tCall.gate_func = "" THEN tCall.proof.allowed
    ELSE \/ TraceGet(tCall.proof.trace, "is_normal_mode")
         \/ /\ TraceGet(tCall.proof.trace, "is_emergency_mode")
            /\ TraceGet(tCall.proof.trace, "is_admin")

\* C40: GovernedTool.run invokes the wrapped function only when the
\* governance check allows it (gate_func(trace) when a gate function is
\* given, the proof's allowed otherwise); on denial the function is never
\* invoked and the result is a DENIED record with the trace and the policy
\* name.
C40_ToolGated ==
    tCall.called =>
        /\ tCall.invoked = 1 => ToolCheckAllows
        /\ ~ToolCheckAllows =>
              /\ tCall.invoked = 0
              /\ tCall.result.status = "DENIED"
              /\ tCall.result.proof = tCall.proof.trace
              /\ tCall.result.policy = tCall.proof.policy_name

\* the policy allows, the gate function does not, and the tool is not run
C40_Witness ==
    /\ tCall.called
    /\ tCall.gate_func = "epoch_gate_func"
    /\ tCall.proof.allowed
    /\ tCall.proof.policy_name = "EpochState"
    /\ tCall.invoked = 0
    /\ tCall.result.status = "DENIED"
    /\ tCall.result.proof = tCall.proof.trace

=============================================================================
